---- MODULE Spec2Model ----
(***************************************************************************)
(* Model of the array-based MultiMap (package multimap): the slice m.data  *)
(* of key/value-set pairs behind the MultiMap interface, the Key           *)
(* functions it relies on, and a caller that may write to every object it  *)
(* holds a reference to (Spec); goroutines that call the map concurrently  *)
(* and run every method step by step under m.mu (SpecConc, SpecWriters);   *)
(* the integer constructors of Key (SpecKey), the comparisons of Keys      *)
(* (SpecOrder) and the copies FromBytes, Bytes and Clone make (SpecCopy);  *)
(* and the nodes of the adaptive radix tree (package art): getChild on     *)
(* trees of the seven node structs (SpecTree), the insert of a new Leaf    *)
(* followed by its lookup (SpecInsert), binarySearchKeyByte (SpecSearch),  *)
(* presence bits that disagree with the key bytes (SpecBitmap), node tags  *)
(* that disagree with the operation called (SpecTag), the value set of a   *)
(* node (SpecValues), its prefix and type byte (SpecHeader), the bits of a *)
(* PresenceBitmap (SpecPresence), the grow and shrink policy (SpecPolicy)  *)
(* and the lookup in a node rebuilt as each struct (SpecVariants); the     *)
(* goroutines under a fair scheduler and a fair lock (SpecFair); and the   *)
(* early node family of package multimap: bitfield256 (SpecBitfield) and   *)
(* the child counts of nodeLeaf, node5, node51, node256 (SpecEarly).       *)
(*                                                                         *)
(* A Go slice or pointer is a reference.  A reference is a record whose    *)
(* field loc names the object it points to and whose other fields hold     *)
(* the object's contents:                                                  *)
(*    loc = Fresh        a newly allocated object nobody else points to    *)
(*    loc = CallerArray  the backing array of a Key the caller passed in   *)
(*                       and still holds                                   *)
(*    loc = i in 1..Len(data)   the object entry data[i] points to         *)
(*    loc = NilArray     no object: the reference is nil                   *)
(*    loc = MadeArray    the backing array of the Key FromBytes returned   *)
(*                       to the caller (SpecCopy)                          *)
(* Inside an entry, key.loc = Fresh says that the entry alone points to    *)
(* its key array, and key.loc = CallerArray that the array is the one the  *)
(* caller passed to the AddValue call that created the entry.              *)
(***************************************************************************)
EXTENDS Integers, Sequences, FiniteSets

\* ---------------------------------------------------------------- bounds
\* The number of entries m.data may hold: AddValue of a new key is not
\* called when the slice is that long.
MaxEntries == 2

\* The length of the longest Key a caller compares.
MaxKeyLen == 2

\* The number of nodes of a tree, and the length of the longest key looked
\* up in it.
MaxNodes == 3
MaxSearchLen == 5

\* The universes the calls draw their arguments from: two byte values, two
\* values, and five keys: the empty key, a key and two keys it is a strict
\* prefix of (which differ in their last byte), and a shorter key that is
\* greater than those.
Byte == {0, 1}
Values == {1, 2}
KeySpace == {<<>>, <<0>>, <<0, 0>>, <<0, 1>>, <<1>>}

Fresh == 0
CallerArray == 0 - 1
NilArray == 0 - 2
MadeArray == 1

VARIABLES
  data,       \* m.data: sequence of kvp records [key, val]
  live,       \* history: live[k] = values added under k and not removed since
  addedKeys,  \* history: keys added and not removed by RemoveKey or Clear since
  last,       \* history: the call that produced this state
  mu,         \* m.mu: the state of the sync.RWMutex
  thr,        \* thr[t]: the call goroutine t is in, and its position in it
  committed,  \* history: m.data when the write lock was last released
  panicked,   \* a call has panicked
  kin,        \* the arguments of two Key constructor calls
  kout,       \* the Keys the two constructor calls returned
  ks,         \* the Keys a caller holds to compare them
  cmp,        \* the results of the comparisons of the Keys of ks
  src,        \* the byte slice a caller makes a Key of
  made,       \* the Key FromBytes(src) returned
  got,        \* the slice made.Bytes() returned
  cloned,     \* the Key made.Clone() returned
  orig,       \* history: the contents of src when FromBytes was called
  nodes,      \* the nodes of a tree; nodes[1] is the root
  found,      \* the results of the lookups in the tree
  paths,      \* history: paths[p] = the key node p was made for
  ins         \* the last insert of a new Leaf, and the lookup that followed

vars ==
  <<data, live, addedKeys, last, mu, thr, committed, panicked, kin, kout,
    ks, cmp, src, made, got, cloned, orig, nodes, found, paths, ins>>

\* The variables of the map and its history, of the goroutines and the lock,
\* of the Key constructor calls, and of the Key comparisons.
mapVars == <<data, live, addedKeys, last>>
lockVars == <<mu, thr, committed, panicked>>
keyVars == <<kin, kout>>
codecVars == <<ks, cmp>>
copyVars == <<src, made, got, cloned, orig>>
nodeVars == <<nodes, found, paths, ins>>
sideVars == <<keyVars, codecVars, copyVars, nodeVars>>

\* ------------------------------------------------------------------- Key
\* A Key the caller builds for one call, with contents b.
KeyArg(b) == [loc |-> CallerArray, bytes |-> b]

\* A Key that is nil: it has no backing array and no bytes.
NilKey == [loc |-> NilArray, bytes |-> <<>>]

\* The contents of a Key.
Bytes(k) == k.bytes

\* Key.Clone: a new backing array with the same contents, nil for a nil Key.
\* (variant: no copy, the same backing array)
CloneShared(k) == k
Clone(k) == IF k.loc = NilArray THEN k ELSE [loc |-> Fresh, bytes |-> Bytes(k)]

\* Key.Equal: same length and same byte at every index.
Equal(k, other) ==
  IF Len(Bytes(k)) # Len(Bytes(other))
  THEN FALSE
  ELSE \A i \in 1..Len(Bytes(k)) : Bytes(k)[i] = Bytes(other)[i]

\* Key.LessThan: the loop over the common indices, then the length test.
\* (variant: the length test is <=, so equal keys are smaller than each other)
RECURSIVE LessThanFrom(_, _, _)
LessThanFromLengthLeq(k, other, i) ==
  IF i <= Len(k) /\ i <= Len(other)
  THEN IF k[i] < other[i] THEN TRUE
       ELSE IF k[i] > other[i] THEN FALSE
       ELSE LessThanFrom(k, other, i + 1)
  ELSE Len(k) <= Len(other)

LessThanFrom(k, other, i) ==
  IF i <= Len(k) /\ i <= Len(other)
  THEN IF k[i] < other[i] THEN TRUE
       ELSE IF k[i] > other[i] THEN FALSE
       ELSE LessThanFrom(k, other, i + 1)
  ELSE Len(k) < Len(other)

\* (variant: the bytes decide alone, a strict prefix is not smaller)
LessThanBytesOnly(k, other) ==
  \E i \in 1..Len(Bytes(k)) :
     /\ i <= Len(Bytes(other))
     /\ \A j \in 1..(i - 1) : Bytes(k)[j] = Bytes(other)[j]
     /\ Bytes(k)[i] < Bytes(other)[i]
LessThan(k, other) == LessThanFrom(Bytes(k), Bytes(other), 1)

\* -------------------------------------------------- integer constructors
\* A Go integer of n bytes is a word: the sequence of its n bytes in two's
\* complement, the least significant byte first.  Word(i, n) is the word of
\* the integer i, as the conversion int8(i), uint16(i), ... gives it.
RECURSIVE Word(_, _)
Word(i, n) == IF n = 0 THEN <<>> ELSE <<i % 256>> \o Word(i \div 256, n - 1)

\* int64(i) for a signed i: the sign bit fills the upper bytes.
SignExtend(w) ==
  [j \in 1..8 |-> IF j <= Len(w) THEN w[j]
                  ELSE IF w[Len(w)] >= 128 THEN 255 ELSE 0]

\* uint64(u) for an unsigned u: zeros fill the upper bytes.
ZeroExtend(w) == [j \in 1..8 |-> IF j <= Len(w) THEN w[j] ELSE 0]

\* const offset = uint64(1) << 63
Offset == [j \in 1..8 |-> IF j = 8 THEN 128 ELSE 0]

\* x + y on uint64: bytewise with carry, the carry out of the top byte is
\* dropped.
RECURSIVE CarryInto(_, _, _)
CarryInto(x, y, j) ==
  IF j = 1 THEN 0 ELSE (x[j - 1] + y[j - 1] + CarryInto(x, y, j - 1)) \div 256

Add64(x, y) == [j \in 1..8 |-> (x[j] + y[j] + CarryInto(x, y, j)) % 256]

\* binary.BigEndian.PutUint64(b[:], u): b[0] is the most significant byte.
\* (variant: the least significant byte is written first)
PutUint64LittleEndian(u) == [j \in 1..8 |-> u[j]]
PutUint64(u) == [j \in 1..8 |-> u[9 - j]]

\* b[:] : a slice over the whole of the caller's array b.
SliceOf(b) == [loc |-> CallerArray, bytes |-> b]

\* FromBytes: a Key with a new backing array holding the bytes of the slice
\* b; a new empty Key when b is nil.
\* (variant: Key(b) without the copy, the Key shares the array of b)
FromBytesNoCopy(b) ==
  IF b.loc = NilArray THEN [loc |-> Fresh, bytes |-> <<>>] ELSE b
FromBytes(b) ==
  IF b.loc = NilArray
  THEN [loc |-> Fresh, bytes |-> <<>>]
  ELSE [loc |-> Fresh, bytes |-> [j \in 1..Len(b.bytes) |-> b.bytes[j]]]

\* Key.Bytes: a new slice with the same contents, nil for a nil Key.
\* (variant: the Key itself is returned as a slice)
KeyBytesNoCopy(k) == k
KeyBytes(k) ==
  IF k.loc = NilArray
  THEN k
  ELSE [loc |-> Fresh, bytes |-> [j \in 1..Len(k.bytes) |-> k.bytes[j]]]

FromInt(i) == FromBytes(SliceOf(PutUint64(Add64(SignExtend(i), Offset))))
FromInt64(i) == FromBytes(SliceOf(PutUint64(Add64(i, Offset))))
FromInt32(i) == FromBytes(SliceOf(PutUint64(Add64(SignExtend(i), Offset))))
FromInt16(i) == FromBytes(SliceOf(PutUint64(Add64(SignExtend(i), Offset))))
\* (variant: uint64(i) without int64(i), the upper bytes are zero)
FromInt8ZeroExtended(i) ==
  FromBytes(SliceOf(PutUint64(Add64(ZeroExtend(i), Offset))))
FromInt8(i) == FromBytes(SliceOf(PutUint64(Add64(SignExtend(i), Offset))))
FromUint(u) == FromBytes(SliceOf(PutUint64(Add64(ZeroExtend(u), Offset))))
FromUint64(u) == FromBytes(SliceOf(PutUint64(Add64(u, Offset))))
FromUint32(u) == FromBytes(SliceOf(PutUint64(Add64(ZeroExtend(u), Offset))))
FromUint16(u) == FromBytes(SliceOf(PutUint64(Add64(ZeroExtend(u), Offset))))
FromUint8(u) == FromBytes(SliceOf(PutUint64(Add64(ZeroExtend(u), Offset))))

SignedConstructors == {"FromInt", "FromInt64", "FromInt32", "FromInt16", "FromInt8"}
UnsignedConstructors ==
  {"FromUint", "FromUint64", "FromUint32", "FromUint16", "FromUint8"}
Constructors == SignedConstructors \cup UnsignedConstructors

\* The call f(w).
Construct(f, w) ==
  CASE f = "FromInt" -> FromInt(w)
    [] f = "FromInt64" -> FromInt64(w)
    [] f = "FromInt32" -> FromInt32(w)
    [] f = "FromInt16" -> FromInt16(w)
    [] f = "FromInt8" -> FromInt8(w)
    [] f = "FromUint" -> FromUint(w)
    [] f = "FromUint64" -> FromUint64(w)
    [] f = "FromUint32" -> FromUint32(w)
    [] f = "FromUint16" -> FromUint16(w)
    [] f = "FromUint8" -> FromUint8(w)

\* The arguments the constructor calls are made with: for every type its
\* smallest and largest value, the values around zero, and the values around
\* the limits of the narrower types.  int and uint are 4 or 8 bytes wide.
Int8Words == {Word(n, 1) : n \in {-128, -127, -2, -1, 0, 1, 2, 126, 127}}
Int16Words ==
  {Word(n, 2) : n \in {-32768, -32767, -129, -128, -1, 0, 1, 127, 128, 32767}}
Int32Words ==
  {Word(n, 4) : n \in {-2147483647 - 1, -32769, -129, -1, 0, 1, 128,
                       32768, 2147483647}}
Int64Words ==
  {Word(n, 8) : n \in {-2147483647 - 1, -129, -1, 0, 1, 128, 2147483647}}
    \cup {<<0, 0, 0, 0, 0, 0, 0, 128>>, <<1, 0, 0, 0, 0, 0, 0, 128>>,
          <<0, 0, 0, 0, 255, 255, 255, 255>>, <<0, 0, 0, 0, 1, 0, 0, 0>>,
          <<254, 255, 255, 255, 255, 255, 255, 127>>,
          <<255, 255, 255, 255, 255, 255, 255, 127>>}
Uint8Words == {Word(n, 1) : n \in {0, 1, 2, 127, 128, 255}}
Uint16Words == {Word(n, 2) : n \in {0, 1, 127, 128, 255, 256, 32768, 65535}}
Uint32Words ==
  {Word(n, 4) : n \in {0, 1, 255, 65536, 2147483647}}
    \cup {<<0, 0, 0, 128>>, <<255, 255, 255, 255>>}
Uint64Words ==
  {Word(n, 8) : n \in {0, 1, 255, 65536, 2147483647}}
    \cup {<<0, 0, 0, 0, 1, 0, 0, 0>>,
          <<255, 255, 255, 255, 255, 255, 255, 127>>,
          <<0, 0, 0, 0, 0, 0, 0, 128>>,
          <<255, 255, 255, 255, 255, 255, 255, 255>>}

Words(f) ==
  CASE f = "FromInt" -> Int32Words \cup Int64Words
    [] f = "FromInt64" -> Int64Words
    [] f = "FromInt32" -> Int32Words
    [] f = "FromInt16" -> Int16Words
    [] f = "FromInt8" -> Int8Words
    [] f = "FromUint" -> Uint32Words \cup Uint64Words
    [] f = "FromUint64" -> Uint64Words
    [] f = "FromUint32" -> Uint32Words
    [] f = "FromUint16" -> Uint16Words
    [] f = "FromUint8" -> Uint8Words

\* No constructor call is in progress, and no Keys were returned.
NoCall == [f |-> "none", a |-> <<>>, g |-> "none", b |-> <<>>]
NoKeys == [ka |-> KeyArg(<<>>), kb |-> KeyArg(<<>>), set |-> FALSE]

\* The two calls kin.f(kin.a) and kin.g(kin.b).
Encode ==
  /\ kin.f \in Constructors
  /\ ~kout.set
  /\ kout' = [ka |-> Construct(kin.f, kin.a), kb |-> Construct(kin.g, kin.b),
              set |-> TRUE]
  /\ UNCHANGED kin

\* -------------------------------------------------------- Key comparisons
\* The Keys a caller compares: nil, and every byte sequence of at most
\* MaxKeyLen bytes over the smallest two byte values and the largest one.
CodecBytes == {0, 1, 255}

RECURSIVE ByteSeqs(_)
ByteSeqs(n) ==
  IF n = 0 THEN {<<>>}
  ELSE ByteSeqs(n - 1)
         \cup {Append(q, b) : q \in {r \in ByteSeqs(n - 1) : Len(r) = n - 1},
                              b \in CodecBytes}

CodecKeys == {NilKey} \cup {KeyArg(b) : b \in ByteSeqs(MaxKeyLen)}

\* LongestCommonPrefix(a, b): the number of equal leading bytes of a and b,
\* counted from the first byte up to the first index where the Keys differ
\* or one of them ends.
RECURSIVE LongestCommonPrefixFrom(_, _, _)
LongestCommonPrefixFrom(a, b, n) ==
  IF n < Len(a) /\ n < Len(b) /\ a[n + 1] = b[n + 1]
  THEN LongestCommonPrefixFrom(a, b, n + 1)
  ELSE n

\* (variant: every index with equal bytes is counted, leading or not)
LongestCommonPrefixAllMatches(a, b) ==
  Cardinality({i \in 1..Len(Bytes(a)) :
                 i <= Len(Bytes(b)) /\ Bytes(a)[i] = Bytes(b)[i]})
LongestCommonPrefix(a, b) == LongestCommonPrefixFrom(Bytes(a), Bytes(b), 0)

\* No comparison was made.
NoComparison == [set |-> FALSE]

\* The calls ks[i].LessThan(ks[j]), ks[i].Equal(ks[j]) and
\* LongestCommonPrefix(ks[i], ks[j]), for every i and j.
Compare ==
  /\ ks # <<>>
  /\ ~cmp.set
  /\ cmp' = [set |-> TRUE,
             lessThan |-> [i \in 1..3, j \in 1..3 |-> LessThan(ks[i], ks[j])],
             equal |-> [i \in 1..3, j \in 1..3 |-> Equal(ks[i], ks[j])],
             lcp |-> [i \in 1..3, j \in 1..3 |->
                        LongestCommonPrefix(ks[i], ks[j])]]
  /\ UNCHANGED ks

\* ------------------------------------------------------------ Key copies
\* The value of a variable no call has assigned yet.
Unset == [loc |-> 0 - 3, bytes |-> <<>>]

\* No slice is made a Key.
NoCopies ==
  /\ src = NilKey
  /\ made = Unset
  /\ got = Unset
  /\ cloned = Unset
  /\ orig = <<>>

\* k := FromBytes(src)
CallFromBytes ==
  /\ made = Unset
  /\ made' = FromBytes(src)
  /\ orig' = Bytes(src)
  /\ UNCHANGED <<src, got, cloned>>

\* The Key k of the caller, as the receiver of a call.
MadeKey ==
  [loc |-> IF made.loc = NilArray THEN NilArray ELSE MadeArray,
   bytes |-> made.bytes]

\* k.Bytes()
CallBytes ==
  /\ made # Unset
  /\ got = Unset
  /\ got' = KeyBytes(MadeKey)
  /\ UNCHANGED <<src, made, cloned, orig>>

\* k.Clone()
CallClone ==
  /\ made # Unset
  /\ cloned = Unset
  /\ cloned' = Clone(MadeKey)
  /\ UNCHANGED <<src, made, got, orig>>

\* The array a reference of the caller points to: that of src, that of the
\* Key made, or the one the reference alone points to (own).
ArrayOfMade == IF made.loc = CallerArray THEN "src" ELSE "made"
ArrayOf(r, own) == IF r.loc = MadeArray THEN ArrayOfMade ELSE own

\* r[pos] = b for the reference r that points to the array a.
WriteAt(r, a, pos, b) == IF a THEN [r EXCEPT !.bytes[pos] = b] ELSE r

\* A write of byte b at index pos into the array named arr: every
\* reference to that array shows it.
WriteArray(arr, pos, b) ==
  /\ src' = WriteAt(src, arr = "src", pos, b)
  /\ made' = WriteAt(made, made # Unset /\ arr = ArrayOfMade, pos, b)
  /\ got' = WriteAt(got, got # Unset /\ arr = ArrayOf(got, "got"), pos, b)
  /\ cloned' =
       WriteAt(cloned, cloned # Unset /\ arr = ArrayOf(cloned, "cloned"), pos, b)
  /\ UNCHANGED orig

\* src[pos] = b after k := FromBytes(src) (TestFromBytesCopies: src[0] = 9).
WriteSrc(pos, b) ==
  /\ made # Unset
  /\ pos \in 1..Len(Bytes(src))
  /\ Bytes(src)[pos] # b
  /\ WriteArray("src", pos, b)

\* k.Bytes()[pos] = b, for the slice the caller got.
WriteGot(pos, b) ==
  /\ got # Unset
  /\ pos \in 1..Len(Bytes(got))
  /\ Bytes(got)[pos] # b
  /\ WriteArray(ArrayOf(got, "got"), pos, b)

\* k.Clone()[pos] = b, for the Key the caller got.
WriteCloned(pos, b) ==
  /\ cloned # Unset
  /\ pos \in 1..Len(Bytes(cloned))
  /\ Bytes(cloned)[pos] # b
  /\ WriteArray(ArrayOf(cloned, "cloned"), pos, b)

\* -------------------------------------------------------------- ART nodes
\* package art.  A pointer to a node is its index in the sequence nodes, and
\* 0 is the nil pointer.  A node object is a record:
\*    kind          the struct it was allocated as (NodeTypeLeaf for a
\*                  LeafNode, ..., FullNodeType for a FullNode)
\*    meta          high nibble: the node type tag, low nibble: prefix length
\*    numChildren, localPrefix (14 bytes)
\*    firstKeyByte  the key byte array of Node64 .. Node1024
\*    child         the child pointer of a LeafNode (one slot), the child
\*                  array of Node64 .. Node1024, the external array of a
\*                  FullNode (<<>> when the pointer to it is nil)
\*    bitmap        the four words of the PresenceBitmap, each the set of its
\*                  set bit offsets
maxLocalPrefixLen == 14
maxChildrenLeaf == 1
maxChildrenNode64 == 4
maxChildrenNode128 == 11
maxChildrenNode256 == 25
maxChildrenNode512 == 50
maxChildrenNode1024 == 107
maxChildrenFullNode == 256

NodeTypeLeaf == 0
NodeType64 == 1
NodeType128 == 2
NodeType256 == 3
NodeType512 == 4
NodeType1024 == 5
FullNodeType == 6

NodeTypes == NodeTypeLeaf..FullNodeType

\* len(n.firstKeyByte) for the struct of each kind.
KeyByteArrayLen(kind) ==
  CASE kind = NodeType64 -> maxChildrenNode64
    [] kind = NodeType128 -> maxChildrenNode128
    [] kind = NodeType256 -> maxChildrenNode256
    [] kind = NodeType512 -> maxChildrenNode512
    [] kind = NodeType1024 -> maxChildrenNode1024
    [] OTHER -> 0

Zeros(n) == [j \in 1..n |-> 0]

\* PresenceBitmap{}: no bit is set.
EmptyBitmap == [w \in 0..3 |-> {}]

\* PresenceBitmap.Get, PresenceBitmap.Set and PresenceBitmap.Clear: word
\* b >> 6, offset b & 0x3F.
BitmapGet(p, b) == (b % 64) \in p[b \div 64]
BitmapSet(p, b) == [p EXCEPT ![b \div 64] = @ \cup {b % 64}]
\* (variant: Clear empties the word of the bit)
BitmapClearWord(p, b) == [p EXCEPT ![b \div 64] = {}]
BitmapClear(p, b) == [p EXCEPT ![b \div 64] = @ \ {b % 64}]

\* &LeafNode[T]{}, &Node64[T]{}, ...: the zero value of the struct; a
\* FullNode comes with its external array (fn.child = &[256]*Node[T]{}).
ZeroNode(kind) ==
  [kind |-> kind,
   meta |-> 0,
   numChildren |-> 0,
   localPrefix |-> Zeros(maxLocalPrefixLen),
   firstKeyByte |-> Zeros(KeyByteArrayLen(kind)),
   child |-> CASE kind = NodeTypeLeaf -> Zeros(maxChildrenLeaf)
               [] kind = FullNodeType -> Zeros(maxChildrenFullNode)
               [] OTHER -> Zeros(KeyByteArrayLen(kind)),
   bitmap |-> EmptyBitmap,
   value |-> [nil |-> TRUE, elems |-> {}]]

\* Node.GetNodeType, Node.setNodeType, Node.GetPrefixLen on the byte meta.
GetNodeType(n) == (n.meta \div 16) % 16
setNodeType(n, nt) == [n EXCEPT !.meta = (n.meta % 16) + ((nt * 16) % 256)]
GetPrefixLen(n) == n.meta % 16

\* Node.setPrefix: at most maxLocalPrefixLen bytes are kept, the rest of the
\* array is zeroed.
\* (variant: the rest of the array keeps what it held)
setPrefixKeepsRest(n, prefix) ==
  LET l == IF Len(prefix) < maxLocalPrefixLen THEN Len(prefix)
           ELSE maxLocalPrefixLen
  IN [n EXCEPT !.meta = ((n.meta \div 16) * 16) + (l % 16),
               !.localPrefix = [j \in 1..maxLocalPrefixLen |->
                                  IF j <= l THEN prefix[j] ELSE n.localPrefix[j]]]
setPrefix(n, prefix) ==
  LET l == IF Len(prefix) < maxLocalPrefixLen THEN Len(prefix)
           ELSE maxLocalPrefixLen
  IN [n EXCEPT !.meta = ((n.meta \div 16) * 16) + (l % 16),
               !.localPrefix = [j \in 1..maxLocalPrefixLen |->
                                  IF j <= l THEN prefix[j] ELSE 0]]

\* Node.GetPrefix and Node.appendLocalPrefixTo.
\* (variant: the parent key is not copied into the result)
GetPrefix(n) == SubSeq(n.localPrefix, 1, GetPrefixLen(n))
appendLocalPrefixToNoParent(n, parentKey) == GetPrefix(n)
appendLocalPrefixTo(n, parentKey) == parentKey \o GetPrefix(n)

\* Node.GetMaxChildren: the number returned, or a panic.
\* (variant: a Node64 holds one child less)
GetMaxChildrenSmallNode64(n) ==
  CASE GetNodeType(n) = NodeTypeLeaf -> [panic |-> FALSE, max |-> maxChildrenLeaf]
    [] GetNodeType(n) = NodeType64 ->
         [panic |-> FALSE, max |-> maxChildrenNode64 - 1]
    [] GetNodeType(n) = NodeType128 -> [panic |-> FALSE, max |-> maxChildrenNode128]
    [] GetNodeType(n) = NodeType256 -> [panic |-> FALSE, max |-> maxChildrenNode256]
    [] GetNodeType(n) = NodeType512 -> [panic |-> FALSE, max |-> maxChildrenNode512]
    [] GetNodeType(n) = NodeType1024 ->
         [panic |-> FALSE, max |-> maxChildrenNode1024]
    [] GetNodeType(n) = FullNodeType ->
         [panic |-> FALSE, max |-> maxChildrenFullNode]
    [] OTHER -> [panic |-> TRUE, max |-> 0]

GetMaxChildren(n) ==
  CASE GetNodeType(n) = NodeTypeLeaf -> [panic |-> FALSE, max |-> maxChildrenLeaf]
    [] GetNodeType(n) = NodeType64 -> [panic |-> FALSE, max |-> maxChildrenNode64]
    [] GetNodeType(n) = NodeType128 -> [panic |-> FALSE, max |-> maxChildrenNode128]
    [] GetNodeType(n) = NodeType256 -> [panic |-> FALSE, max |-> maxChildrenNode256]
    [] GetNodeType(n) = NodeType512 -> [panic |-> FALSE, max |-> maxChildrenNode512]
    [] GetNodeType(n) = NodeType1024 ->
         [panic |-> FALSE, max |-> maxChildrenNode1024]
    [] GetNodeType(n) = FullNodeType ->
         [panic |-> FALSE, max |-> maxChildrenFullNode]
    [] OTHER -> [panic |-> TRUE, max |-> 0]

\* binarySearchKeyByte of Node512 and Node1024: the loop on lo and hi, then
\* the test of the byte at lo; indices count from 0 as in the code.
RECURSIVE binarySearchLoop(_, _, _, _)
binarySearchLoop(n, target, lo, hi) ==
  IF lo < hi
  THEN LET mid == (lo + hi) \div 2
       IN IF n.firstKeyByte[mid + 1] < target
          THEN binarySearchLoop(n, target, mid + 1, hi)
          ELSE binarySearchLoop(n, target, lo, mid)
  ELSE lo

binarySearchKeyByte(n, target) ==
  LET lo == binarySearchLoop(n, target, 0, n.numChildren)
  IN IF lo < Len(n.firstKeyByte) /\ n.firstKeyByte[lo + 1] = target
     THEN lo ELSE 0 - 1

\* The results of getChild: a node pointer (0 for nil), or a panic.
Returned(ptr) == [panic |-> FALSE, node |-> ptr]
Panicked == [panic |-> TRUE, node |-> 0]

\* The first index i < numChildren with firstKeyByte[i] = b and a non-nil
\* child[i], from index i on; -1 when there is none (the loop of Node64,
\* Node128 and Node256).
\* (variant: the loop stops one index before numChildren)
RECURSIVE linearSearchFrom(_, _, _)
linearSearchFromStopsEarly(n, b, i) ==
  IF i < n.numChildren - 1
  THEN IF n.firstKeyByte[i + 1] = b /\ n.child[i + 1] # 0
       THEN i ELSE linearSearchFrom(n, b, i + 1)
  ELSE 0 - 1

linearSearchFrom(n, b, i) ==
  IF i < n.numChildren
  THEN IF n.firstKeyByte[i + 1] = b /\ n.child[i + 1] # 0
       THEN i ELSE linearSearchFrom(n, b, i + 1)
  ELSE 0 - 1

\* n.getChild(currentPrefix, searchKey) for the node pointer ptr of the
\* heap h.  Calling it on a nil pointer panics (GetNodeType reads n.meta).
RECURSIVE getChild(_, _, _, _)

\* The part after the comparison of the keys, for each struct.
descendLeaf(h, n, lokalKey, searchKey) ==
  IF n.child[1] # 0
  THEN getChild(h, n.child[1], lokalKey, searchKey)
  ELSE Returned(0)

\* (variant: only the first entry of the arrays is compared)
descendLinearFirstEntry(h, n, lokalKey, searchKey, nextKeyByte) ==
  LET i == IF n.numChildren > 0 /\ n.firstKeyByte[1] = nextKeyByte
                                /\ n.child[1] # 0
           THEN 0 ELSE 0 - 1
  IN IF i >= 0
     THEN getChild(h, n.child[i + 1], lokalKey, searchKey)
     ELSE Returned(0)

descendLinear(h, n, lokalKey, searchKey, nextKeyByte) ==
  LET i == linearSearchFrom(n, nextKeyByte, 0)
  IN IF i >= 0
     THEN getChild(h, n.child[i + 1], lokalKey, searchKey)
     ELSE Returned(0)

\* (variant: nil is returned when the key byte is not found)
descendSortedNilOnMiss(h, n, lokalKey, searchKey, nextKeyByte) ==
  IF ~BitmapGet(n.bitmap, nextKeyByte)
  THEN Returned(0)
  ELSE LET position == binarySearchKeyByte(n, nextKeyByte)
       IN IF position >= 0
          THEN getChild(h, n.child[position + 1], lokalKey, searchKey)
          ELSE Returned(0)

descendSorted(h, n, lokalKey, searchKey, nextKeyByte) ==
  IF ~BitmapGet(n.bitmap, nextKeyByte)
  THEN Returned(0)
  ELSE LET position == binarySearchKeyByte(n, nextKeyByte)
       IN IF position >= 0
          THEN getChild(h, n.child[position + 1], lokalKey, searchKey)
          ELSE Panicked

descendFull(h, n, lokalKey, searchKey, nextKeyByte) ==
  IF ~BitmapGet(n.bitmap, nextKeyByte)
  THEN Returned(0)
  ELSE IF n.child = <<>>
       THEN Panicked
       ELSE IF n.child[nextKeyByte + 1] # 0
            THEN getChild(h, n.child[nextKeyByte + 1], lokalKey, searchKey)
            ELSE Returned(0)

\* Node.getChild: the switch on the node type, and the body the seven
\* structs share: lcp < llk is a miss, lcp = lsk is this node, otherwise
\* the child for searchKey[lcp] is asked.  An unknown node type returns nil.
getChild(h, ptr, currentPrefix, searchKey) ==
  IF ptr = 0 THEN Panicked
  ELSE
    LET n == h[ptr]
        nt == GetNodeType(n)
        lokalKey == appendLocalPrefixTo(n, currentPrefix)
        lcp == LongestCommonPrefix(KeyArg(lokalKey), KeyArg(searchKey))
        llk == Len(lokalKey)
        lsk == Len(searchKey)
    IN IF nt \notin NodeTypes THEN Returned(0)
       ELSE IF GetPrefixLen(n) > maxLocalPrefixLen THEN Panicked
       ELSE IF lcp < llk THEN Returned(0)
       ELSE IF lcp = lsk THEN Returned(ptr)
       ELSE CASE nt = NodeTypeLeaf -> descendLeaf(h, n, lokalKey, searchKey)
              [] nt \in {NodeType64, NodeType128, NodeType256} ->
                   descendLinear(h, n, lokalKey, searchKey, searchKey[lcp + 1])
              [] nt \in {NodeType512, NodeType1024} ->
                   descendSorted(h, n, lokalKey, searchKey, searchKey[lcp + 1])
              [] nt = FullNodeType ->
                   descendFull(h, n, lokalKey, searchKey, searchKey[lcp + 1])

\* ---------------------------------------------------------- building trees
\* The bytes of the prefixes and search keys: the smallest byte, which is
\* also what a zeroed array holds, and a byte of the last bitmap word.
TreeBytes == {0, 200}
RootPrefixes == {<<>>, <<200>>}
Suffixes == {<<>>, <<0>>}

\* The kinds of the nodes below the root: a LeafNode, a node with unsorted
\* key bytes and a node with sorted key bytes and a bitmap.  The root is of
\* any of the seven kinds.
ChildKinds == {NodeTypeLeaf, NodeType64, NodeType512}

\* The search keys: every sequence of at most MaxSearchLen bytes.
RECURSIVE TreeKeys(_)
TreeKeys(n) ==
  IF n = 0 THEN {<<>>}
  ELSE TreeKeys(n - 1)
         \cup {Append(q, b) : q \in {r \in TreeKeys(n - 1) : Len(r) = n - 1},
                              b \in TreeBytes}

SearchKeys == TreeKeys(MaxSearchLen)

\* A new node of the given kind with the given inline prefix
\* (n64 := &Node64[int]{}; n64.setNodeType(NodeType64); n64.setPrefix(p)).
NewNode(kind, prefix) == setPrefix(setNodeType(ZeroNode(kind), kind), prefix)

\* getChild goes on in a child of n for byte b: the child pointer of a
\* LeafNode is set; an entry below numChildren of a Node64, Node128 or
\* Node256 has the key byte b and a pointer; the bit of b is set in the
\* bitmap of a Node512 or Node1024 and the binary search finds the key byte
\* (the pointer of the entry is not looked at); the bit of b is set in the
\* bitmap of a FullNode and its slot b holds a pointer.
HasChildFor(n, b) ==
  CASE n.kind = NodeTypeLeaf -> n.child[1] # 0
    [] n.kind \in {NodeType64, NodeType128, NodeType256} ->
         linearSearchFrom(n, b, 0) >= 0
    [] n.kind \in {NodeType512, NodeType1024} ->
         /\ BitmapGet(n.bitmap, b)
         /\ binarySearchKeyByte(n, b) >= 0
    [] n.kind = FullNodeType -> BitmapGet(n.bitmap, b) /\ n.child[b + 1] # 0

\* The byte b is in use in node n, so that a test does not store a child
\* under it: the child pointer of a LeafNode is set, b is among the first
\* numChildren key bytes, or the bit of b is set in the bitmap of a FullNode
\* or its slot b holds a pointer.
KeyByteUsed(n, b) ==
  CASE n.kind = NodeTypeLeaf -> n.child[1] # 0
    [] n.kind = FullNodeType -> BitmapGet(n.bitmap, b) \/ n.child[b + 1] # 0
    [] OTHER -> \E i \in 1..n.numChildren : n.firstKeyByte[i] = b

\* The node has room for one more child.
HasCapacity(n) ==
  CASE n.kind = NodeTypeLeaf -> n.child[1] = 0
    [] OTHER -> n.numChildren < GetMaxChildren(n).max

\* The number of the key bytes of n that are smaller than b.
SmallerKeyBytes(n, b) ==
  Cardinality({i \in 1..n.numChildren : n.firstKeyByte[i] < b})

\* The node n with the child c stored under byte b, as the tests store it:
\* in the child pointer of a LeafNode; at index numChildren of the arrays of
\* Node64, Node128 and Node256; at its place in the ascending key bytes of
\* Node512 and Node1024, with the presence bit set; at index b of the
\* external array of a FullNode, with the presence bit set.
WithChild(n, b, c) ==
  CASE n.kind = NodeTypeLeaf -> [n EXCEPT !.child[1] = c]
    [] n.kind \in {NodeType64, NodeType128, NodeType256} ->
         [n EXCEPT !.firstKeyByte[n.numChildren + 1] = b,
                   !.child[n.numChildren + 1] = c,
                   !.numChildren = n.numChildren + 1]
    [] n.kind \in {NodeType512, NodeType1024} ->
         LET at == SmallerKeyBytes(n, b) + 1
         IN [n EXCEPT
               !.firstKeyByte = [j \in 1..Len(n.firstKeyByte) |->
                                   IF j < at THEN n.firstKeyByte[j]
                                   ELSE IF j = at THEN b
                                   ELSE n.firstKeyByte[j - 1]],
               !.child = [j \in 1..Len(n.child) |->
                            IF j < at THEN n.child[j]
                            ELSE IF j = at THEN c
                            ELSE n.child[j - 1]],
               !.numChildren = n.numChildren + 1,
               !.bitmap = BitmapSet(n.bitmap, b)]
    [] n.kind = FullNodeType ->
         [n EXCEPT !.child[b + 1] = c, !.bitmap = BitmapSet(n.bitmap, b)]

\* No node exists and no lookup was made.
NoLookup == [set |-> FALSE]
NoInsert == [set |-> FALSE]
NoNodes ==
  /\ nodes = <<>>
  /\ found = NoLookup
  /\ paths = <<>>
  /\ ins = NoInsert

\* A new node of the given kind, whose inline prefix is b followed by
\* suffix, is made the child of node parent for byte b.
PutChild(parent, b, kind, suffix) ==
  /\ ~found.set
  /\ Len(nodes) < MaxNodes
  /\ parent \in 1..Len(nodes)
  /\ HasCapacity(nodes[parent])
  /\ ~KeyByteUsed(nodes[parent], b)
  /\ nodes' = Append([nodes EXCEPT ![parent] = WithChild(@, b, Len(nodes) + 1)],
                     NewNode(kind, <<b>> \o suffix))
  /\ paths' = Append(paths, paths[parent] \o <<b>> \o suffix)
  /\ UNCHANGED <<found, ins>>

\* The key byte b is stored in node parent without a child, as the tests
\* store the key bytes they do not look up: numChildren is raised and b is
\* written to firstKeyByte (with its presence bit in a Node512 or Node1024);
\* in a FullNode the presence bit of b is set.  The child pointer stays nil.
PutKeyByte(parent, b) ==
  /\ ~found.set
  /\ parent \in 1..Len(nodes)
  /\ nodes[parent].kind # NodeTypeLeaf
  /\ HasCapacity(nodes[parent])
  /\ ~KeyByteUsed(nodes[parent], b)
  /\ nodes' = [nodes EXCEPT ![parent] = WithChild(@, b, 0)]
  /\ UNCHANGED <<found, paths, ins>>

\* root.getChild(Key{}, searchKey) for every search key.
Lookup ==
  /\ nodes # <<>>
  /\ ~found.set
  /\ found' = [set |-> TRUE,
               node |-> [sk \in SearchKeys |-> getChild(nodes, 1, <<>>, sk)]]
  /\ UNCHANGED <<nodes, paths, ins>>

\* ---------------------------------------------------------------- insert
\* The keys inserted: the search keys, and keys that go on, after the prefix
\* of the root and one byte, with as many bytes as an inline prefix holds.
LongKeys ==
  {p \o <<b>> \o Zeros(maxLocalPrefixLen) : p \in RootPrefixes, b \in TreeBytes}
InsertKeys == SearchKeys \cup LongKeys

\* find_child(b): the pointer to the child of n for byte b, 0 when there is
\* none.
FindChild(n, b) ==
  CASE n.kind = NodeTypeLeaf -> n.child[1]
    [] n.kind = FullNodeType ->
         IF HasChildFor(n, b) THEN n.child[b + 1] ELSE 0
    [] n.kind \in {NodeType512, NodeType1024} ->
         IF HasChildFor(n, b)
         THEN n.child[binarySearchKeyByte(n, b) + 1] ELSE 0
    [] OTHER ->
         IF HasChildFor(n, b)
         THEN n.child[linearSearchFrom(n, b, 0) + 1] ELSE 0

\* The walk of insert: as long as the local key of the node is a strict
\* prefix of key and the node has a child for b = key[lcp], it goes on in
\* that child with path_key = local_key.  It ends in the node where the
\* child is absent, or where the key matches or leaves the local key.
RECURSIVE insertWalk(_, _, _, _)
insertWalk(h, ptr, pathKey, key) ==
  LET n == h[ptr]
      localKey == appendLocalPrefixTo(n, pathKey)
      lcp == LongestCommonPrefix(KeyArg(localKey), KeyArg(key))
  IN IF lcp = Len(localKey) /\ lcp < Len(key)
     THEN LET c == FindChild(n, key[lcp + 1])
          IN IF c # 0 THEN insertWalk(h, c, localKey, key)
             ELSE [absent |-> TRUE, node |-> ptr, lcp |-> lcp]
     ELSE [absent |-> FALSE, node |-> ptr, lcp |-> lcp]

\* The inline prefix of the new Leaf starts at key[lcp + skip]: at the byte
\* b the Leaf is put under (skip = 0), or after it (skip = 1).
PrefixStarts == {0, 1}

\* insert(key) where the search continues past a node that has no child for
\* b = key[lcp] and has room for one: a new Leaf is made and put under b.
InsertNewLeaf(key, skip) ==
  /\ ~ins.set
  /\ ~found.set
  /\ Len(nodes) < MaxNodes
  /\ LET w == insertWalk(nodes, 1, <<>>, key)
         leaf == Len(nodes) + 1
     IN /\ w.absent
        /\ HasCapacity(nodes[w.node])
        /\ nodes' = Append([nodes EXCEPT ![w.node] =
                                          WithChild(@, key[w.lcp + 1], leaf)],
                           NewNode(NodeTypeLeaf,
                                   SubSeq(key, w.lcp + skip + 1, Len(key))))
        /\ paths' = Append(paths, key)
        /\ ins' = [set |-> TRUE, key |-> key, leaf |-> leaf, parent |-> w.node,
                   lcp |-> w.lcp, skip |-> skip, looked |-> FALSE,
                   got |-> Returned(0)]
  /\ UNCHANGED found

\* root.getChild(Key{}, key) for the key that was inserted.
LookupInserted ==
  /\ ins.set
  /\ ~ins.looked
  /\ ins' = [ins EXCEPT !.looked = TRUE,
                        !.got = getChild(nodes, 1, <<>>, ins.key)]
  /\ UNCHANGED <<nodes, found, paths>>

\* ------------------------------------------------------ presence bits
\* The kinds of node that hold a PresenceBitmap.
BitmapKinds == {NodeType512, NodeType1024, FullNodeType}

\* n.bitmap.Set(b) and n.bitmap.Clear(b) on node p, whatever its key bytes
\* and children are.
SetBit(p, b) ==
  /\ ~found.set
  /\ p \in 1..Len(nodes)
  /\ nodes[p].kind \in BitmapKinds
  /\ ~BitmapGet(nodes[p].bitmap, b)
  /\ nodes' = [nodes EXCEPT ![p].bitmap = BitmapSet(@, b)]
  /\ UNCHANGED <<found, paths, ins>>

ClearBit(p, b) ==
  /\ ~found.set
  /\ p \in 1..Len(nodes)
  /\ nodes[p].kind \in BitmapKinds
  /\ BitmapGet(nodes[p].bitmap, b)
  /\ nodes' = [nodes EXCEPT ![p].bitmap = BitmapClear(@, b)]
  /\ UNCHANGED <<found, paths, ins>>

\* The currentPrefix getChild is called with on node p: the key the node
\* was made for, without the inline prefix of the node.
ParentKey(p) ==
  SubSeq(paths[p], 1, Len(paths[p]) - GetPrefixLen(nodes[p]))

\* n.getChild(currentPrefix, searchKey) on every node n and for every
\* search key.
LookupAtNodes ==
  /\ ~found.set
  /\ found' = [set |-> TRUE,
               at |-> [p \in 1..Len(nodes) |->
                         [sk \in SearchKeys |->
                            getChild(nodes, p, ParentKey(p), sk)]]]
  /\ UNCHANGED <<nodes, paths, ins>>

\* --------------------------------------------------------- node variants
\* The structs with more than one child.
InteriorKinds == NodeTypes \ {NodeTypeLeaf}

\* The bytes n has a child for.
ChildBytes(n) == {b \in 0..255 : FindChild(n, b) # 0}

\* The node n with the children of the node from stored under the given
\* bytes, put in ascending order of the bytes.
RECURSIVE WithChildrenOf(_, _, _)
WithChildrenOf(n, from, bytes) ==
  IF bytes = {} THEN n
  ELSE LET b == CHOOSE x \in bytes : \A y \in bytes : x <= y
       IN WithChildrenOf(WithChild(n, b, FindChild(from, b)), from, bytes \ {b})

\* A node of the given kind with the inline prefix, the value set and the
\* mapping from bytes to children of n.
AsVariant(n, kind) ==
  WithChildrenOf([NewNode(kind, GetPrefix(n)) EXCEPT !.value = n.value],
                 n, ChildBytes(n))

\* root.getChild(Key{}, searchKey) for every search key, on the tree as it
\* was built and with the root replaced by each of its variants.
LookupInVariants ==
  /\ nodes # <<>>
  /\ ~found.set
  /\ GetNodeType(nodes[1]) \in InteriorKinds
  /\ found' =
       [set |-> TRUE,
        node |-> [sk \in SearchKeys |-> getChild(nodes, 1, <<>>, sk)],
        as |-> [kind \in InteriorKinds |->
                  LET h == [nodes EXCEPT ![1] = AsVariant(@, kind)]
                  IN [sk \in SearchKeys |-> getChild(h, 1, <<>>, sk)]]]
  /\ UNCHANGED <<nodes, paths, ins>>

\* ------------------------------------------------------------ node tags
\* The cast helpers of Node: the node itself when its tag is the one asked
\* for, a panic otherwise.
castTo(n, nt) == IF GetNodeType(n) # nt THEN [panic |-> TRUE] ELSE [panic |-> FALSE]
asLeaf(n) == castTo(n, NodeTypeLeaf)
asNode64(n) == castTo(n, NodeType64)
asNode128(n) == castTo(n, NodeType128)
asNode256(n) == castTo(n, NodeType256)
asNode512(n) == castTo(n, NodeType512)
asNode1024(n) == castTo(n, NodeType1024)
asFullNode(n) == castTo(n, FullNodeType)

CastHelpers ==
  {"asLeaf", "asNode64", "asNode128", "asNode256", "asNode512", "asNode1024",
   "asFullNode"}

\* The tag a cast helper asks for, and the call of the helper on n.
TagOf(helper) ==
  CASE helper = "asLeaf" -> NodeTypeLeaf
    [] helper = "asNode64" -> NodeType64
    [] helper = "asNode128" -> NodeType128
    [] helper = "asNode256" -> NodeType256
    [] helper = "asNode512" -> NodeType512
    [] helper = "asNode1024" -> NodeType1024
    [] helper = "asFullNode" -> FullNodeType

CallCast(helper, n) ==
  CASE helper = "asLeaf" -> asLeaf(n)
    [] helper = "asNode64" -> asNode64(n)
    [] helper = "asNode128" -> asNode128(n)
    [] helper = "asNode256" -> asNode256(n)
    [] helper = "asNode512" -> asNode512(n)
    [] helper = "asNode1024" -> asNode1024(n)
    [] helper = "asFullNode" -> asFullNode(n)

\* The values of the upper four bits of meta, and those that are no
\* NodeType constant.
Tags == 0..15
UnknownTags == Tags \ NodeTypes

\* A node of the given struct whose tag and prefix length are written into
\* meta (node := &Node[int]{meta: 0xF0}).
TaggedNode(kind, tag, prefixLen) ==
  [ZeroNode(kind) EXCEPT !.meta = tag * 16 + prefixLen]

\* _ = n.asLeaf() ... _ = n.asFullNode()
Cast(helper) ==
  /\ ~found.set
  /\ found' = [set |-> TRUE, op |-> helper,
               panic |-> CallCast(helper, nodes[1]).panic]
  /\ UNCHANGED <<nodes, paths, ins>>

\* _ = node.GetMaxChildren()
CallGetMaxChildren ==
  /\ ~found.set
  /\ found' = [set |-> TRUE, op |-> "GetMaxChildren",
               panic |-> GetMaxChildren(nodes[1]).panic]
  /\ UNCHANGED <<nodes, paths, ins>>

\* result := node.getChild(Key{}, searchKey)
CallGetChild(sk) ==
  /\ ~found.set
  /\ found' = [set |-> TRUE, op |-> "getChild", key |-> sk,
               panic |-> getChild(nodes, 1, <<>>, sk).panic]
  /\ UNCHANGED <<nodes, paths, ins>>

\* ---------------------------------------------------- prefix and type
\* The prefixes given to setPrefix: count bytes that ascend from first; none,
\* a few, as many as the array holds, and more.
PrefixLens == {0, 1, 3, 14, 15, 24}
PrefixOf(count, first) == [j \in 1..count |-> (first + j - 1) % 256]
Prefixes == {PrefixOf(count, first) : count \in PrefixLens, first \in {0, 1, 250}}

\* The record of a call on the node: its name, the node before it, and the
\* last prefix given to setPrefix so far.
HeaderCall(name, given, prefix) ==
  [set |-> TRUE, op |-> name, before |-> nodes[1], given |-> given,
   prefix |-> prefix]

\* node.setPrefix(prefix)
CallSetPrefix(prefix) ==
  /\ nodes' = [nodes EXCEPT ![1] = setPrefix(@, prefix)]
  /\ found' = HeaderCall("setPrefix", TRUE, prefix)
  /\ UNCHANGED <<paths, ins>>

\* node.setNodeType(nt)
CallSetNodeType(nt) ==
  /\ nodes' = [nodes EXCEPT ![1] = setNodeType(@, nt)]
  /\ found' = HeaderCall("setNodeType", found.set /\ found.given,
                         IF found.set THEN found.prefix ELSE <<>>)
  /\ UNCHANGED <<paths, ins>>

\* ------------------------------------------------------- grow and shrink
\* has_capacity(): the node holds fewer children than its variant allows.
hasCapacity(n) == n.numChildren < GetMaxChildren(n).max

\* should_shrink(): the node is a Node128 or larger and the number of its
\* children is at or below the threshold of its variant.
shouldShrink(n) ==
  CASE GetNodeType(n) = NodeType128 -> n.numChildren <= 3
    [] GetNodeType(n) = NodeType256 -> n.numChildren <= 10
    [] GetNodeType(n) = NodeType512 -> n.numChildren <= 22
    [] GetNodeType(n) = NodeType1024 -> n.numChildren <= 45
    [] GetNodeType(n) = FullNodeType -> n.numChildren <= 96
    [] OTHER -> FALSE

\* grow() and shrink(): the next larger and the next smaller variant with
\* the prefix and the number of children of n (the children themselves are
\* not followed here).
grow(n) ==
  [NewNode(GetNodeType(n) + 1, GetPrefix(n)) EXCEPT !.numChildren = n.numChildren]
shrink(n) ==
  [NewNode(GetNodeType(n) - 1, GetPrefix(n)) EXCEPT !.numChildren = n.numChildren]

\* The record of a step of the policy: what was done to the node.
PolicyStep(name) == [set |-> TRUE, op |-> name]

\* put_child on a node with capacity; on a full node that is not a FullNode,
\* grow() first and put_child on the larger node.
PutOrGrow ==
  /\ IF hasCapacity(nodes[1])
     THEN /\ nodes' = [nodes EXCEPT ![1].numChildren = @ + 1]
          /\ found' = PolicyStep("put")
     ELSE /\ GetNodeType(nodes[1]) < FullNodeType
          /\ nodes' = [nodes EXCEPT ![1] =
                         [grow(@) EXCEPT !.numChildren = @ + 1]]
          /\ found' = PolicyStep("grow")
  /\ UNCHANGED <<paths, ins>>

\* remove_child on a node with children.
RemoveOne ==
  /\ nodes[1].numChildren > 0
  /\ nodes' = [nodes EXCEPT ![1].numChildren = @ - 1]
  /\ found' = PolicyStep("remove")
  /\ UNCHANGED <<paths, ins>>

\* A node that satisfies should_shrink() is replaced by shrink().
Shrink ==
  /\ shouldShrink(nodes[1])
  /\ nodes' = [nodes EXCEPT ![1] = shrink(@)]
  /\ found' = PolicyStep("shrink")
  /\ UNCHANGED <<paths, ins>>

\* ------------------------------------------------------- PresenceBitmap
\* The bytes whose bits are set and cleared: the first and the last bit of
\* each of the four words.
PresenceBytes == {0, 63, 64, 127, 128, 191, 192, 255}

\* The record of a call on the bitmap: its name, its byte, the bitmap before
\* it, and the name of the last call on each byte so far.
NoBitCalls == [c \in PresenceBytes |-> "none"]
BitmapCall(name, b) ==
  [set |-> TRUE, op |-> name, b |-> b, before |-> nodes[1],
   last |-> [(IF found.set THEN found.last ELSE NoBitCalls) EXCEPT ![b] = name]]

\* bm.Set(b), bm.Clear(b)
CallBitmapSet(b) ==
  /\ nodes' = [nodes EXCEPT ![1] = BitmapSet(@, b)]
  /\ found' = BitmapCall("Set", b)
  /\ UNCHANGED <<paths, ins>>

CallBitmapClear(b) ==
  /\ nodes' = [nodes EXCEPT ![1] = BitmapClear(@, b)]
  /\ found' = BitmapCall("Clear", b)
  /\ UNCHANGED <<paths, ins>>

\* ------------------------------------------------------ early node family
\* The node types of package multimap and the length of the prefix array.
Leaf == 0
Node5 == 1
Node51 == 2
Node256 == 3
maxPrefixLen == 12

\* node.maxChildCount: the switch on n.ntype.
maxChildCount(n) ==
  CASE n.ntype = Leaf -> 1
    [] n.ntype = Node5 -> 5
    [] n.ntype = Node51 -> 51
    [] n.ntype = Node256 -> 256
    [] OTHER -> 0

\* currentChildCount of nodeLeaf, and of node5, node51 and node256.
currentChildCount(n) ==
  IF n.ntype = Leaf
  THEN IF n.prefixLen > 0 /\ n.child # 0 THEN 1 ELSE 0
  ELSE n.numChildren

\* hasCapacityForChild of nodeLeaf, node5, node51 and node256.
hasCapacityForChild(n) ==
  CASE n.ntype = Leaf -> n.prefixLen = 0 /\ n.child = 0
    [] n.ntype = Node5 -> n.numChildren < 5
    [] n.ntype = Node51 -> n.numChildren < 51
    [] n.ntype = Node256 -> n.numChildren < 256

\* A nodeLeaf with a prefix of the given length and a child pointer (0 is
\* nil), and a node5, node51 or node256 with the given number of children.
LeafOf(prefixLen, child) ==
  [ntype |-> Leaf, prefixLen |-> prefixLen, child |-> child, numChildren |-> 0]
InnerOf(ntype, prefixLen, numChildren) ==
  [ntype |-> ntype, prefixLen |-> prefixLen, child |-> 0,
   numChildren |-> numChildren]

\* The prefix lengths of the nodes: none, one byte, the whole array.
EarlyPrefixLens == {0, 1, maxPrefixLen}

\* No method of the node was called yet; a result of -1 says so.
NoOpsCalled == [set |-> FALSE, count |-> 0 - 1, max |-> 0 - 1, capacity |-> 0 - 1]

\* n.currentChildCount(), n.maxChildCount() and n.hasCapacityForChild() are
\* called; the results are recorded (a bool as 0 or 1).
CallCurrentChildCount ==
  /\ found.count < 0
  /\ found' = [found EXCEPT !.set = TRUE, !.count = currentChildCount(nodes[1])]
  /\ UNCHANGED <<nodes, paths, ins>>

CallMaxChildCount ==
  /\ found.max < 0
  /\ found' = [found EXCEPT !.set = TRUE, !.max = maxChildCount(nodes[1])]
  /\ UNCHANGED <<nodes, paths, ins>>

CallHasCapacityForChild ==
  /\ found.capacity < 0
  /\ found' = [found EXCEPT !.set = TRUE,
                 !.capacity = IF hasCapacityForChild(nodes[1]) THEN 1 ELSE 0]
  /\ UNCHANGED <<nodes, paths, ins>>

\* ------------------------------------------------------------ bitfield256
\* bitfield256 (package multimap): four words, each the set of its set bit
\* offsets.  get, set and clear: word index >> 6, offset index & 0x3F.
bitfieldGet(p, index) == (index % 64) \in p[index \div 64]
bitfieldSet(p, index) == [p EXCEPT ![index \div 64] = @ \cup {index % 64}]
bitfieldClear(p, index) == [p EXCEPT ![index \div 64] = @ \ {index % 64}]

\* totalBitCount: the bits.OnesCount64 of the four words are added up in a
\* byte.
RECURSIVE totalBitCountFrom(_, _, _)
totalBitCountFrom(p, i, count) ==
  IF i < 4
  THEN totalBitCountFrom(p, i + 1, (count + Cardinality(p[i])) % 256)
  ELSE count

totalBitCount(p) == totalBitCountFrom(p, 0, 0)

\* var b bitfield256; for i := 0; i < count; i++ { b.set(byte(i)) }
FilledBitfield(count) ==
  [w \in 0..3 |-> {o \in 0..63 : 64 * w + o < count}]

\* The indices set and cleared afterwards: the first and the last bit and
\* the two sides of a word boundary.
BitIndices == {0, 63, 64, 255}

\* The record of a call on the bitfield: its name, its index and the
\* bitfield before it.
BitfieldCall(name, index) ==
  [set |-> TRUE, op |-> name, index |-> index, before |-> nodes[1]]

\* b.set(index), b.clear(index)
CallBitfieldSet(index) ==
  /\ nodes' = [nodes EXCEPT ![1] = bitfieldSet(@, index)]
  /\ found' = BitfieldCall("set", index)
  /\ UNCHANGED <<paths, ins>>

CallBitfieldClear(index) ==
  /\ nodes' = [nodes EXCEPT ![1] = bitfieldClear(@, index)]
  /\ found' = BitfieldCall("clear", index)
  /\ UNCHANGED <<paths, ins>>

\* -------------------------------------------------------- sorted nodes
\* The ascending key bytes a sorted node is filled with: FirstBytes are the
\* values of firstKeyByte[0], Steps the distances between neighbours.
FirstBytes == {0, 1}
Steps == {1, 2}
SortedKinds == {NodeType512, NodeType1024}

\* n512 := &Node512[int]{}; n512.numChildren = count;
\* n512.firstKeyByte[i] = first + i * step for every i < count.
SortedNode(kind, count, first, step) ==
  [setNodeType(ZeroNode(kind), kind) EXCEPT
     !.numChildren = count,
     !.firstKeyByte = [j \in 1..KeyByteArrayLen(kind) |->
                         IF j <= count THEN first + (j - 1) * step ELSE 0]]

\* pos := n.binarySearchKeyByte(target)
Search(target) ==
  /\ ~found.set
  /\ found' = [set |-> TRUE, target |-> target,
               position |-> binarySearchKeyByte(nodes[1], target)]
  /\ UNCHANGED <<nodes, paths, ins>>

\* ------------------------------------------------------------ value sets
\* set3.Empty / set3.EmptyWithCapacity(0): a new, non-nil, empty set.
EmptySet == [loc |-> Fresh, nil |-> FALSE, elems |-> {}]

\* Set3.Clone: a new set with the same elements.
SetClone(s) == [loc |-> Fresh, nil |-> FALSE, elems |-> s.elems]

\* ----------------------------------------------------------- node values
\* The values added to a node.
NodeValues == {1, 2, 3}

\* Node.HasValue: n.value != nil && n.value.Size() > 0.
NodeHasValue(n) == ~n.value.nil /\ Cardinality(n.value.elems) > 0

\* Node.AddValue: the set is allocated when the pointer is nil.
NodeAddValue(n, val) ==
  [n EXCEPT !.value = [nil |-> FALSE,
                       elems |-> (IF @.nil THEN {} ELSE @.elems) \cup {val}]]

\* Node.RemoveValue: a set of at most one value is dropped, from a larger
\* one val is removed.
\* (variant: val is removed from a set of any size, the pointer is kept)
NodeRemoveValueKeepsSet(n, val) ==
  IF ~n.value.nil
  THEN [n EXCEPT !.value.elems = @ \ {val}]
  ELSE n
NodeRemoveValue(n, val) ==
  IF ~n.value.nil
  THEN IF Cardinality(n.value.elems) <= 1
       THEN [n EXCEPT !.value = [nil |-> TRUE, elems |-> {}]]
       ELSE [n EXCEPT !.value.elems = @ \ {val}]
  ELSE n

\* Node.GetValues on node p: a new empty set, or a clone of the set of p.
NodeGetValues(p) ==
  IF nodes[p].value.nil THEN EmptySet
  ELSE SetClone([loc |-> p, nil |-> FALSE, elems |-> nodes[p].value.elems])

\* The record of a call on the node: its name, its argument, the value
\* pointer of the node before it and the set it returned.
NodeCall(name, val, res) ==
  [set |-> TRUE, op |-> name, v |-> val, before |-> nodes[1].value, res |-> res]

\* node.AddValue(val), node.RemoveValue(val), node.GetValues()
CallAddValue(val) ==
  /\ nodes' = [nodes EXCEPT ![1] = NodeAddValue(@, val)]
  /\ found' = NodeCall("AddValue", val, EmptySet)
  /\ UNCHANGED <<paths, ins>>

CallRemoveValue(val) ==
  /\ nodes' = [nodes EXCEPT ![1] = NodeRemoveValue(@, val)]
  /\ found' = NodeCall("RemoveValue", val, EmptySet)
  /\ UNCHANGED <<paths, ins>>

CallGetValues ==
  /\ found' = NodeCall("GetValues", 0, NodeGetValues(1))
  /\ UNCHANGED <<nodes, paths, ins>>

\* The caller adds val to the set GetValues returned; the write reaches the
\* node when that set is the node's own.
CallerAddsToValues(val) ==
  /\ found.set
  /\ found.op = "GetValues"
  /\ val \notin found.res.elems
  /\ found' = [NodeCall("CallerAdds", val, found.res) EXCEPT
                 !.res.elems = @ \cup {val}]
  /\ nodes' = IF found.res.loc = 1
              THEN [nodes EXCEPT ![1].value.elems = @ \cup {val}]
              ELSE nodes
  /\ UNCHANGED <<paths, ins>>

\* ------------------------------------------------------- reading m.data
\* m.data[i].key: the key slice stored in entry i.
KeyOfEntry(i) ==
  [loc |-> IF data[i].key.loc = NilArray THEN NilArray ELSE i,
   bytes |-> data[i].key.bytes]

\* m.data[i].val: the set pointer stored in entry i.
ValOfEntry(i) == [loc |-> i, nil |-> data[i].val.nil, elems |-> data[i].val.elems]

\* for i := range m.data { if m.data[i].key.Equal(key) { ... return } }
\* The index of the first entry whose key equals key, 0 when the loop ends.
RECURSIVE FindFrom(_, _)
FindFrom(key, i) ==
  IF i > Len(data) THEN 0
  ELSE IF Equal(KeyOfEntry(i), key) THEN i
  ELSE FindFrom(key, i + 1)

Find(key) == FindFrom(key, 1)

\* --------------------------------------------------------------- readers
ContainsKey(key) == Find(key) # 0

\* (variant: the stored set is returned, not a clone of it)
ValuesForNoClone(key) ==
  LET i == Find(key)
  IN IF i # 0
     THEN IF ~data[i].val.nil THEN ValOfEntry(i) ELSE EmptySet
     ELSE EmptySet
ValuesFor(key) ==
  LET i == Find(key)
  IN IF i # 0
     THEN IF ~data[i].val.nil THEN SetClone(ValOfEntry(i)) ELSE EmptySet
     ELSE EmptySet

\* result := set3.Empty(); for every entry that passes the test and has a
\* non-nil set: result.AddAll(kv.val)
Collect(idx) ==
  [loc |-> Fresh, nil |-> FALSE,
   elems |-> UNION {data[i].val.elems : i \in {j \in idx : ~data[j].val.nil}}]

\* (variant: the loop returns after the first entry)
AllValuesFirstEntryOnly == Collect({i \in 1..Len(data) : i = 1})
AllValues == Collect(1..Len(data))

\* (variant: || between the two bound tests instead of &&)
ValuesBetweenInclusiveEitherBound(from, to) ==
  Collect({i \in 1..Len(data) :
     (LessThan(KeyOfEntry(i), to) \/ Equal(KeyOfEntry(i), to))
       \/ (LessThan(from, KeyOfEntry(i)) \/ Equal(from, KeyOfEntry(i)))})
ValuesBetweenInclusive(from, to) ==
  Collect({i \in 1..Len(data) :
     (LessThan(KeyOfEntry(i), to) \/ Equal(KeyOfEntry(i), to))
       /\ (LessThan(from, KeyOfEntry(i)) \/ Equal(from, KeyOfEntry(i)))})

ValuesBetweenExclusive(from, to) ==
  Collect({i \in 1..Len(data) :
     LessThan(KeyOfEntry(i), to) /\ LessThan(from, KeyOfEntry(i))})

ValuesFromInclusive(from) ==
  Collect({i \in 1..Len(data) :
     LessThan(from, KeyOfEntry(i)) \/ Equal(from, KeyOfEntry(i))})

ValuesToInclusive(to) ==
  Collect({i \in 1..Len(data) :
     LessThan(KeyOfEntry(i), to) \/ Equal(KeyOfEntry(i), to)})

ValuesFromExclusive(from) ==
  Collect({i \in 1..Len(data) : LessThan(from, KeyOfEntry(i))})

ValuesToExclusive(to) ==
  Collect({i \in 1..Len(data) : LessThan(KeyOfEntry(i), to)})

NumberOfKeys == Len(data)

AllKeys == [i \in 1..Len(data) |-> Clone(KeyOfEntry(i))]

\* ------------------------------------------------------ writing m.data
\* m.data[i].val.Add(v), allocating the set first when the pointer is nil.
\* (variant: the set is allocated anew on every call)
AddToEntryReplacing(i, v) ==
  [data EXCEPT ![i].val = [nil |-> FALSE, elems |-> {v}]]
AddToEntry(i, v) ==
  [data EXCEPT ![i].val =
     [nil |-> FALSE, elems |-> (IF @.nil THEN {} ELSE @.elems) \cup {v}]]

\* m.data[i].val.Remove(v) when the pointer is not nil.
\* (variant: a set of at most one value is emptied whatever v is)
RemoveFromEntrySingleton(i, v) ==
  [data EXCEPT ![i].val =
     IF @.nil THEN @
     ELSE IF Cardinality(@.elems) <= 1 THEN [@ EXCEPT !.elems = {}]
     ELSE [@ EXCEPT !.elems = @ \ {v}]]
RemoveFromEntry(i, v) ==
  [data EXCEPT ![i].val = IF @.nil THEN @ ELSE [@ EXCEPT !.elems = @ \ {v}]]

\* m.data[i] = m.data[len-1]; m.data = m.data[:len-1]
\* (variant: the slice is truncated without moving the last entry)
DropEntryTruncateOnly(i) == SubSeq(data, 1, Len(data) - 1)
\* (variant: the last entry is moved into the gap and the slice keeps its
\* length)
DropEntryNoTruncate(i) == [data EXCEPT ![i] = data[Len(data)]]
DropEntry(i) == SubSeq([data EXCEPT ![i] = data[Len(data)]], 1, Len(data) - 1)

\* append(m.data, kvp{key: key.Clone(), val: {v}})
AppendEntry(key, v) ==
  Append(data, [key |-> Clone(key), val |-> [nil |-> FALSE, elems |-> {v}]])

\* ---------------------------------------------------------------- state
\* The record of a call: its name and whether it found what it was called
\* for.
Op(name, hit) == [op |-> name, hit |-> hit]

\* ------------------------------------------------- goroutines and lock
\* The goroutines that call the map.
Threads == {1, 2}

\* The RWMutex nobody holds; a goroutine that is in no call.
Unlocked == [writer |-> FALSE, readers |-> 0]
NoResult == [kind |-> "none"]
Idle == [pc |-> "idle", op |-> "none", key |-> NilKey, to |-> NilKey,
         v |-> 0, i |-> 0, res |-> NoResult]

\* newArrayBased: an empty slice, and nothing added yet.
NewMap ==
  /\ data = <<>>
  /\ live = [k \in KeySpace |-> {}]
  /\ addedKeys = {}
  /\ last = Op("New", FALSE)

\* The zero RWMutex, and no goroutine in a call.
NewLock ==
  /\ mu = Unlocked
  /\ thr = [t \in Threads |-> Idle]
  /\ committed = <<>>
  /\ panicked = FALSE

\* No constructor call and no comparison is made.
NoCodec ==
  /\ kin = NoCall
  /\ kout = NoKeys
  /\ ks = <<>>
  /\ cmp = NoComparison
  /\ NoCopies
  /\ NoNodes

Init ==
  /\ NewMap
  /\ NewLock
  /\ NoCodec

\* Two constructor calls with arguments of their types, on the side of a new
\* map.
InitKey ==
  /\ NewMap
  /\ NewLock
  /\ \E f, g \in Constructors :
        \E a \in Words(f), b \in Words(g) :
           kin = [f |-> f, a |-> a, g |-> g, b |-> b]
  /\ kout = NoKeys
  /\ ks = <<>>
  /\ cmp = NoComparison
  /\ NoCopies
  /\ NoNodes

\* A caller holds three Keys, on the side of a new map.
InitOrder ==
  /\ NewMap
  /\ NewLock
  /\ kin = NoCall
  /\ kout = NoKeys
  /\ ks \in [1..3 -> CodecKeys]
  /\ cmp = NoComparison
  /\ NoCopies
  /\ NoNodes

\* A caller holds a byte slice, on the side of a new map.
InitCopy ==
  /\ NewMap
  /\ NewLock
  /\ kin = NoCall
  /\ kout = NoKeys
  /\ ks = <<>>
  /\ cmp = NoComparison
  /\ src \in CodecKeys
  /\ made = Unset
  /\ got = Unset
  /\ cloned = Unset
  /\ orig = <<>>
  /\ NoNodes

\* The root of a tree is made, on the side of a new map.
InitTree ==
  /\ NewMap
  /\ NewLock
  /\ kin = NoCall
  /\ kout = NoKeys
  /\ ks = <<>>
  /\ cmp = NoComparison
  /\ NoCopies
  /\ \E kind \in NodeTypes, prefix \in RootPrefixes :
        /\ nodes = <<NewNode(kind, prefix)>>
        /\ paths = <<prefix>>
  /\ found = NoLookup
  /\ ins = NoInsert

\* A node of one of the seven structs whose tag is that of its struct or no
\* NodeType constant at all, on the side of a new map.
InitTag ==
  /\ NewMap
  /\ NewLock
  /\ kin = NoCall
  /\ kout = NoKeys
  /\ ks = <<>>
  /\ cmp = NoComparison
  /\ NoCopies
  /\ \E kind \in NodeTypes, prefixLen \in 0..1 :
        \E tag \in {kind} \cup UnknownTags :
           nodes = <<TaggedNode(kind, tag, prefixLen)>>
  /\ paths = <<<<>>>>
  /\ found = NoLookup
  /\ ins = NoInsert

\* A new node of one of the seven structs, on the side of a new map.
InitValues ==
  /\ NewMap
  /\ NewLock
  /\ kin = NoCall
  /\ kout = NoKeys
  /\ ks = <<>>
  /\ cmp = NoComparison
  /\ NoCopies
  /\ \E kind \in NodeTypes : nodes = <<NewNode(kind, <<>>)>>
  /\ paths = <<<<>>>>
  /\ found = NoLookup
  /\ ins = NoInsert

\* The zero value of one of the seven structs (node := &Node[int]{}), on
\* the side of a new map.
InitHeader ==
  /\ NewMap
  /\ NewLock
  /\ kin = NoCall
  /\ kout = NoKeys
  /\ ks = <<>>
  /\ cmp = NoComparison
  /\ NoCopies
  /\ \E kind \in NodeTypes : nodes = <<ZeroNode(kind)>>
  /\ paths = <<<<>>>>
  /\ found = NoLookup
  /\ ins = NoInsert

\* A bitfield256 in which the first bits were set, on the side of a new
\* map.
InitBitfield ==
  /\ NewMap
  /\ NewLock
  /\ kin = NoCall
  /\ kout = NoKeys
  /\ ks = <<>>
  /\ cmp = NoComparison
  /\ NoCopies
  /\ \E count \in 0..255 : nodes = <<FilledBitfield(count)>>
  /\ paths = <<<<>>>>
  /\ found = NoLookup
  /\ ins = NoInsert

\* A new Leaf without a child, on the side of a new map.
InitPolicy ==
  /\ NewMap
  /\ NewLock
  /\ kin = NoCall
  /\ kout = NoKeys
  /\ ks = <<>>
  /\ cmp = NoComparison
  /\ NoCopies
  /\ nodes = <<NewNode(NodeTypeLeaf, <<>>)>>
  /\ paths = <<<<>>>>
  /\ found = NoLookup
  /\ ins = NoInsert

\* A nodeLeaf with or without a prefix and a child, or a node5, node51 or
\* node256 with as many children as its arrays hold at most, on the side of
\* a new map.
InitEarly ==
  /\ NewMap
  /\ NewLock
  /\ kin = NoCall
  /\ kout = NoKeys
  /\ ks = <<>>
  /\ cmp = NoComparison
  /\ NoCopies
  /\ \E prefixLen \in EarlyPrefixLens :
        \/ \E child \in {0, 1} : nodes = <<LeafOf(prefixLen, child)>>
        \/ \E ntype \in {Node5, Node51, Node256} :
              \E numChildren \in 0..maxChildCount([ntype |-> ntype]) :
                 nodes = <<InnerOf(ntype, prefixLen, numChildren)>>
  /\ paths = <<<<>>>>
  /\ found = NoOpsCalled
  /\ ins = NoInsert

\* var bm PresenceBitmap, on the side of a new map.
InitPresence ==
  /\ NewMap
  /\ NewLock
  /\ kin = NoCall
  /\ kout = NoKeys
  /\ ks = <<>>
  /\ cmp = NoComparison
  /\ NoCopies
  /\ nodes = <<EmptyBitmap>>
  /\ paths = <<<<>>>>
  /\ found = NoLookup
  /\ ins = NoInsert

\* A Node512 or Node1024 holds ascending key bytes, on the side of a new
\* map.
InitSearch ==
  /\ NewMap
  /\ NewLock
  /\ kin = NoCall
  /\ kout = NoKeys
  /\ ks = <<>>
  /\ cmp = NoComparison
  /\ NoCopies
  /\ \E kind \in SortedKinds, first \in FirstBytes, step \in Steps :
        \E count \in 0..KeyByteArrayLen(kind) :
           nodes = <<SortedNode(kind, count, first, step)>>
  /\ paths = <<<<>>>>
  /\ found = NoLookup
  /\ ins = NoInsert

\* -------------------------------------------------------------- mutators
\* (variant: the loop does not return after adding to the entry it found, so
\* a new tuple is appended as well)
AddValueNoReturn(key, v) ==
  LET i == Find(key)
  IN /\ Len(data) < MaxEntries
     /\ data' = Append(IF i # 0 THEN AddToEntry(i, v) ELSE data,
                       [key |-> Clone(key), val |-> [nil |-> FALSE, elems |-> {v}]])
     /\ live' = [live EXCEPT ![Bytes(key)] = @ \cup {v}]
     /\ addedKeys' = addedKeys \cup {Bytes(key)}
     /\ last' = Op("AddValue", i # 0 /\ v \in data[i].val.elems)

\* hit: v was already stored under key.
AddValue(key, v) ==
  LET i == Find(key)
  IN /\ i # 0 \/ Len(data) < MaxEntries
     /\ data' = IF i # 0 THEN AddToEntry(i, v) ELSE AppendEntry(key, v)
     /\ live' = [live EXCEPT ![Bytes(key)] = @ \cup {v}]
     /\ addedKeys' = addedKeys \cup {Bytes(key)}
     /\ last' = Op("AddValue", i # 0 /\ v \in data[i].val.elems)

\* hit: key was stored and v was in its set.
RemoveValue(key, v) ==
  LET i == Find(key)
  IN /\ data' = IF i # 0 THEN RemoveFromEntry(i, v) ELSE data
     /\ live' = [live EXCEPT ![Bytes(key)] = @ \ {v}]
     /\ last' = Op("RemoveValue", i # 0 /\ v \in data[i].val.elems)
     /\ UNCHANGED addedKeys

\* hit: key was stored.
RemoveKey(key) ==
  LET i == Find(key)
  IN /\ data' = IF i # 0 THEN DropEntry(i) ELSE data
     /\ live' = [live EXCEPT ![Bytes(key)] = {}]
     /\ addedKeys' = addedKeys \ {Bytes(key)}
     /\ last' = Op("RemoveKey", i # 0)

\* (variant: the slice is cut by one entry instead of being replaced)
ClearDropsLast ==
  /\ data' = SubSeq(data, 1, Len(data) - 1)
  /\ live' = [k \in KeySpace |-> {}]
  /\ addedKeys' = {}
  /\ last' = Op("Clear", Len(data) > 0)

\* hit: the map held at least one entry.
Clear ==
  /\ data' = <<>>
  /\ live' = [k \in KeySpace |-> {}]
  /\ addedKeys' = {}
  /\ last' = Op("Clear", Len(data) > 0)

\* ---------------------------------------------------------------- caller
\* A write of byte b at index pos through the Key reference r: it reaches
\* m.data when r points to the array of an entry.
WriteKey(r, pos, b) ==
  data' = IF r.loc \in 1..Len(data)
          THEN [data EXCEPT ![r.loc].key.bytes[pos] = b] ELSE data

\* The Key the caller passed to the AddValue call that created entry i.
PassedKeyOf(i) ==
  IF data[i].key.loc = CallerArray THEN KeyOfEntry(i) ELSE KeyArg(data[i].key.bytes)

\* The caller overwrites one byte of the Key it passed to the AddValue call
\* that created entry i (TestPutClonesKey: k[0] = 0x62).
CallerWritesPassedKey(i, pos, b) ==
  /\ i \in 1..Len(data)
  /\ pos \in 1..Len(Bytes(PassedKeyOf(i)))
  /\ Bytes(PassedKeyOf(i))[pos] # b
  /\ WriteKey(PassedKeyOf(i), pos, b)
  /\ last' = Op("CallerWritesPassedKey", FALSE)
  /\ UNCHANGED <<live, addedKeys>>

\* The caller calls AllKeys() and overwrites one byte of the j-th key of
\* the slice it got back.
CallerWritesReturnedKey(j, pos, b) ==
  /\ j \in 1..Len(AllKeys)
  /\ pos \in 1..Len(Bytes(AllKeys[j]))
  /\ Bytes(AllKeys[j])[pos] # b
  /\ WriteKey(AllKeys[j], pos, b)
  /\ last' = Op("CallerWritesReturnedKey", FALSE)
  /\ UNCHANGED <<live, addedKeys>>

\* The sets the queries return in this state.
ReturnedSets ==
  {AllValues}
    \cup {ValuesFor(KeyArg(k)) : k \in KeySpace}
    \cup {ValuesFromInclusive(KeyArg(k)) : k \in KeySpace}
    \cup {ValuesFromExclusive(KeyArg(k)) : k \in KeySpace}
    \cup {ValuesToInclusive(KeyArg(k)) : k \in KeySpace}
    \cup {ValuesToExclusive(KeyArg(k)) : k \in KeySpace}
    \cup {ValuesBetweenInclusive(KeyArg(f), KeyArg(t)) : f, t \in KeySpace}
    \cup {ValuesBetweenExclusive(KeyArg(f), KeyArg(t)) : f, t \in KeySpace}

\* The caller calls a query and then adds v to the set r it got back
\* (add = TRUE) or removes v from it (TestRemoveValueAndValuesForClone:
\* res.Add(999)).  The write reaches m.data when r points to the set of an
\* entry.
CallerMutatesResult(r, v, add) ==
  /\ add <=> v \notin r.elems
  /\ data' = IF r.loc \in 1..Len(data)
             THEN [data EXCEPT ![r.loc].val.elems =
                                  IF add THEN @ \cup {v} ELSE @ \ {v}]
             ELSE data
  /\ last' = Op("CallerMutatesResult", add)
  /\ UNCHANGED <<live, addedKeys>>

\* ------------------------------------------------------ concurrent calls
\* A call runs in steps: the goroutine has called a method and waits for
\* m.mu ("lock"), holds it and runs the loop over m.data ("find"), writes
\* ("write", or "move" and "trunc" in RemoveKey) or reads ("read"), and
\* reaches the deferred Unlock or RUnlock ("unlock"), after which the call
\* returns.
Mutators == {"AddValue", "RemoveValue", "RemoveKey", "Clear"}
Readers ==
  {"ContainsKey", "ValuesFor", "AllValues", "NumberOfKeys", "AllKeys",
   "ValuesBetweenInclusive", "ValuesBetweenExclusive", "ValuesFromInclusive",
   "ValuesToInclusive", "ValuesFromExclusive", "ValuesToExclusive"}

\* The Keys the concurrent calls are made with: nil, empty, and one byte.
ConcKeys == {NilKey, KeyArg(<<>>), KeyArg(<<0>>)}

Invocation(op, key, to, v) ==
  [Idle EXCEPT !.pc = "lock", !.op = op, !.key = key, !.to = to, !.v = v]

\* The bounds the concurrent range queries are made with: a nil and a
\* one-byte bound, and for the queries with two bounds a pair in order and a
\* pair with from greater than to.
ConcBounds == {NilKey, KeyArg(<<0>>)}
ConcBoundPairs == {<<NilKey, KeyArg(<<0>>)>>, <<KeyArg(<<0>>), KeyArg(<<>>)>>}

\* Every call of the interface with its arguments.
Invocations ==
  {Invocation(op, k, NilKey, v) :
     op \in {"AddValue", "RemoveValue"}, k \in ConcKeys, v \in Values}
    \cup {Invocation(op, k, NilKey, 0) :
            op \in {"RemoveKey", "ContainsKey", "ValuesFor"}, k \in ConcKeys}
    \cup {Invocation(op, k, NilKey, 0) :
            op \in {"ValuesFromInclusive", "ValuesToInclusive",
                    "ValuesFromExclusive", "ValuesToExclusive"},
            k \in ConcBounds}
    \cup {Invocation(op, ft[1], ft[2], 0) :
            op \in {"ValuesBetweenInclusive", "ValuesBetweenExclusive"},
            ft \in ConcBoundPairs}
    \cup {Invocation(op, NilKey, NilKey, 0) :
            op \in {"Clear", "AllValues", "NumberOfKeys", "AllKeys"}}

\* The lock a method takes: m.mu.Lock() or m.mu.RLock().
\* (variant: RemoveKey takes the read lock)
LockKindRemoveKeyShared(op) ==
  IF op \in Mutators \ {"RemoveKey"} THEN "Lock" ELSE "RLock"
\* (variant: AddValue takes the read lock)
LockKindAddValueShared(op) ==
  IF op \in Mutators \ {"AddValue"} THEN "Lock" ELSE "RLock"
\* (variant: ValuesFor takes no lock)
LockKindValuesForUnlocked(op) ==
  IF op \in Mutators THEN "Lock" ELSE IF op = "ValuesFor" THEN "none" ELSE "RLock"
\* (variant: AllKeys takes no lock)
LockKindAllKeysUnlocked(op) ==
  IF op \in Mutators THEN "Lock" ELSE IF op = "AllKeys" THEN "none" ELSE "RLock"
LockKind(op) == IF op \in Mutators THEN "Lock" ELSE "RLock"

\* sync.RWMutex: Lock returns when no goroutine holds the lock, RLock when
\* no goroutine holds it for writing.
CanLock == ~mu.writer /\ mu.readers = 0
CanRLock == ~mu.writer

\* The value a read-only method returns.
Answer(c) ==
  CASE c.op = "ContainsKey" -> [kind |-> "bool", b |-> ContainsKey(c.key)]
    [] c.op = "NumberOfKeys" -> [kind |-> "count", n |-> NumberOfKeys]
    [] c.op = "AllKeys" -> [kind |-> "keys", ks |-> AllKeys]
    [] c.op = "ValuesFor" -> [kind |-> "set", s |-> ValuesFor(c.key)]
    [] c.op = "AllValues" -> [kind |-> "set", s |-> AllValues]
    [] c.op = "ValuesBetweenInclusive" ->
         [kind |-> "set", s |-> ValuesBetweenInclusive(c.key, c.to)]
    [] c.op = "ValuesBetweenExclusive" ->
         [kind |-> "set", s |-> ValuesBetweenExclusive(c.key, c.to)]
    [] c.op = "ValuesFromInclusive" -> [kind |-> "set", s |-> ValuesFromInclusive(c.key)]
    [] c.op = "ValuesToInclusive" -> [kind |-> "set", s |-> ValuesToInclusive(c.key)]
    [] c.op = "ValuesFromExclusive" -> [kind |-> "set", s |-> ValuesFromExclusive(c.key)]
    [] c.op = "ValuesToExclusive" -> [kind |-> "set", s |-> ValuesToExclusive(c.key)]

\* m.data[j] is inside the slice; an index outside of it panics.
IndexOK(j) == j \in 1..Len(data)

\* The position after the loop: inside the if of the entry found, or past
\* the loop when no entry has the key.
\* (variant: RemoveKey overwrites and truncates whether or not the loop found
\* the key)
AfterFindRemoveKeyUnguarded(op, i) ==
  CASE op = "AddValue" -> "write"
    [] op = "RemoveValue" -> IF i # 0 THEN "write" ELSE "unlock"
    [] op = "RemoveKey" -> "move"
AfterFind(op, i) ==
  CASE op = "AddValue" -> "write"
    [] op = "RemoveValue" -> IF i # 0 THEN "write" ELSE "unlock"
    [] op = "RemoveKey" -> IF i # 0 THEN "move" ELSE "unlock"

\* The history after a mutator has returned.
LiveAfter(c) ==
  CASE c.op = "AddValue" -> [live EXCEPT ![Bytes(c.key)] = @ \cup {c.v}]
    [] c.op = "RemoveValue" -> [live EXCEPT ![Bytes(c.key)] = @ \ {c.v}]
    [] c.op = "RemoveKey" -> [live EXCEPT ![Bytes(c.key)] = {}]
    [] c.op = "Clear" -> [k \in KeySpace |-> {}]
    [] OTHER -> live

AddedAfter(c) ==
  CASE c.op = "AddValue" -> addedKeys \cup {Bytes(c.key)}
    [] c.op = "RemoveKey" -> addedKeys \ {Bytes(c.key)}
    [] c.op = "Clear" -> {}
    [] OTHER -> addedKeys

Goto(t, pc) == thr' = [thr EXCEPT ![t].pc = pc]

\* Unlocking a lock that is not held is a fatal error of sync: the program
\* ends without unwinding, nothing is released.
Fatal(t) ==
  /\ panicked' = TRUE
  /\ Goto(t, "panicked")
  /\ UNCHANGED <<data, mu, committed>>

\* Goroutine t panics at an index expression between Lock or RLock and the
\* return: the deferred Unlock or RUnlock runs while the panic unwinds and
\* releases the lock the goroutine holds.
Panic(t) ==
  LET c == thr[t]
      unlocks == LockKind(c.op) = "Lock" /\ mu.writer
      runlocks == LockKind(c.op) = "RLock" /\ mu.readers > 0
  IN /\ panicked' = TRUE
     /\ Goto(t, "panicked")
     /\ mu' = CASE unlocks -> [mu EXCEPT !.writer = FALSE]
                [] runlocks -> [mu EXCEPT !.readers = @ - 1]
                [] OTHER -> mu
     /\ committed' = IF unlocks THEN data ELSE committed
     /\ UNCHANGED data

\* Goroutine t calls a method.
Call(t, c) ==
  /\ thr[t].pc = "idle"
  /\ thr' = [thr EXCEPT ![t] = c]
  /\ UNCHANGED <<data, live, addedKeys, mu, committed, panicked>>

\* m.mu.Lock() or m.mu.RLock() returns.
Acquire(t) ==
  LET c == thr[t]
      next == IF c.op \in {"AddValue", "RemoveValue", "RemoveKey"} THEN "find"
              ELSE IF c.op = "Clear" THEN "write" ELSE "read"
  IN /\ c.pc = "lock"
     /\ CASE LockKind(c.op) = "Lock" ->
               CanLock /\ mu' = [mu EXCEPT !.writer = TRUE]
          [] LockKind(c.op) = "RLock" ->
               CanRLock /\ mu' = [mu EXCEPT !.readers = @ + 1]
          [] OTHER -> mu' = mu
     /\ Goto(t, next)
     /\ UNCHANGED <<data, live, addedKeys, committed, panicked>>

\* The loop of AddValue, RemoveValue and RemoveKey looks for the key.
FindStep(t) ==
  LET c == thr[t]
      i == Find(c.key)
  IN /\ c.pc = "find"
     /\ thr' = [thr EXCEPT ![t].i = i, ![t].pc = AfterFind(c.op, i)]
     /\ UNCHANGED <<data, live, addedKeys, mu, committed, panicked>>

\* AddValue adds to the set of the entry or appends a new tuple, RemoveValue
\* removes from the set of the entry, Clear replaces the slice.
WriteStep(t) ==
  LET c == thr[t]
  IN /\ c.pc = "write"
     /\ IF c.op \in {"AddValue", "RemoveValue"} /\ c.i # 0 /\ ~IndexOK(c.i)
        THEN Panic(t)
        ELSE /\ c.op = "AddValue" /\ c.i = 0 => Len(data) < MaxEntries
             /\ data' = CASE c.op = "AddValue" ->
                               IF c.i # 0 THEN AddToEntry(c.i, c.v)
                               ELSE AppendEntry(c.key, c.v)
                          [] c.op = "RemoveValue" -> RemoveFromEntry(c.i, c.v)
                          [] c.op = "Clear" -> <<>>
             /\ Goto(t, "unlock")
             /\ UNCHANGED <<mu, committed, panicked>>
     /\ UNCHANGED <<live, addedKeys>>

\* RemoveKey: m.data[i] = m.data[len(m.data)-1]
MoveStep(t) ==
  LET c == thr[t]
  IN /\ c.pc = "move"
     /\ IF ~IndexOK(c.i) \/ ~IndexOK(Len(data))
        THEN Panic(t)
        ELSE /\ data' = [data EXCEPT ![c.i] = data[Len(data)]]
             /\ Goto(t, "trunc")
             /\ UNCHANGED <<mu, committed, panicked>>
     /\ UNCHANGED <<live, addedKeys>>

\* RemoveKey: m.data = m.data[:len(m.data)-1]
\* (variant: the slice keeps its length)
TruncStepKeepsLength(t) ==
  LET c == thr[t]
  IN /\ c.pc = "trunc"
     /\ IF Len(data) = 0
        THEN Panic(t)
        ELSE /\ data' = data
             /\ Goto(t, "unlock")
             /\ UNCHANGED <<mu, committed, panicked>>
     /\ UNCHANGED <<live, addedKeys>>

TruncStep(t) ==
  LET c == thr[t]
  IN /\ c.pc = "trunc"
     /\ IF Len(data) = 0
        THEN Panic(t)
        ELSE /\ data' = SubSeq(data, 1, Len(data) - 1)
             /\ Goto(t, "unlock")
             /\ UNCHANGED <<mu, committed, panicked>>
     /\ UNCHANGED <<live, addedKeys>>

\* A read-only method computes its result.
ReadStep(t) ==
  LET c == thr[t]
  IN /\ c.pc = "read"
     /\ thr' = [thr EXCEPT ![t].res = Answer(c), ![t].pc = "unlock"]
     /\ UNCHANGED <<data, live, addedKeys, mu, committed, panicked>>

\* The deferred m.mu.Unlock() or m.mu.RUnlock() runs and the call returns.
\* Unlocking a lock that is not held is a fatal error.
\* (variant: the return inside the loop of ContainsKey does not unlock)
ReleaseNotOnEarlyReturn(t) ==
  LET c == thr[t]
      held == CASE LockKind(c.op) = "Lock" -> mu.writer
                [] LockKind(c.op) = "RLock" -> mu.readers > 0
                [] OTHER -> TRUE
      early == c.op = "ContainsKey" /\ c.res = [kind |-> "bool", b |-> TRUE]
  IN /\ c.pc = "unlock"
     /\ IF ~held
        THEN Fatal(t) /\ UNCHANGED <<live, addedKeys>>
        ELSE /\ mu' = CASE early -> mu
                        [] LockKind(c.op) = "Lock" -> [mu EXCEPT !.writer = FALSE]
                        [] LockKind(c.op) = "RLock" -> [mu EXCEPT !.readers = @ - 1]
                        [] OTHER -> mu
             /\ thr' = [thr EXCEPT ![t] = Idle]
             /\ committed' = IF c.op \in Mutators THEN data ELSE committed
             /\ live' = LiveAfter(c)
             /\ addedKeys' = AddedAfter(c)
             /\ UNCHANGED <<data, panicked>>

Release(t) ==
  LET c == thr[t]
      held == CASE LockKind(c.op) = "Lock" -> mu.writer
                [] LockKind(c.op) = "RLock" -> mu.readers > 0
                [] OTHER -> TRUE
  IN /\ c.pc = "unlock"
     /\ IF ~held
        THEN Fatal(t) /\ UNCHANGED <<live, addedKeys>>
        ELSE /\ mu' = CASE LockKind(c.op) = "Lock" -> [mu EXCEPT !.writer = FALSE]
                        [] LockKind(c.op) = "RLock" -> [mu EXCEPT !.readers = @ - 1]
                        [] OTHER -> mu
             /\ thr' = [thr EXCEPT ![t] = Idle]
             /\ committed' = IF c.op \in Mutators THEN data ELSE committed
             /\ live' = LiveAfter(c)
             /\ addedKeys' = AddedAfter(c)
             /\ UNCHANGED <<data, panicked>>

\* One goroutine calls the map and writes to what it holds; every call
\* returns before the next one is made.
Next ==
  \/ \E k \in KeySpace, v \in Values :
        AddValue(KeyArg(k), v) /\ UNCHANGED <<lockVars, sideVars>>
  \/ \E k \in KeySpace, v \in Values :
        RemoveValue(KeyArg(k), v) /\ UNCHANGED <<lockVars, sideVars>>
  \/ \E k \in KeySpace :
        RemoveKey(KeyArg(k)) /\ UNCHANGED <<lockVars, sideVars>>
  \/ Clear /\ UNCHANGED <<lockVars, sideVars>>
  \/ \E i \in 1..MaxEntries, pos \in 1..2, b \in Byte :
        CallerWritesPassedKey(i, pos, b) /\ UNCHANGED <<lockVars, sideVars>>
  \/ \E j \in 1..MaxEntries, pos \in 1..2, b \in Byte :
        CallerWritesReturnedKey(j, pos, b) /\ UNCHANGED <<lockVars, sideVars>>
  \/ \E r \in ReturnedSets, v \in Values, add \in BOOLEAN :
        CallerMutatesResult(r, v, add) /\ UNCHANGED <<lockVars, sideVars>>

Spec == Init /\ [][Next]_vars

\* The goroutines call the map concurrently and run their calls step by
\* step.
NextConc ==
  \/ \E t \in Threads, c \in Invocations : Call(t, c) /\ UNCHANGED <<last, sideVars>>
  \/ \E t \in Threads : Acquire(t) /\ UNCHANGED <<last, sideVars>>
  \/ \E t \in Threads : FindStep(t) /\ UNCHANGED <<last, sideVars>>
  \/ \E t \in Threads : WriteStep(t) /\ UNCHANGED <<last, sideVars>>
  \/ \E t \in Threads : MoveStep(t) /\ UNCHANGED <<last, sideVars>>
  \/ \E t \in Threads : TruncStep(t) /\ UNCHANGED <<last, sideVars>>
  \/ \E t \in Threads : ReadStep(t) /\ UNCHANGED <<last, sideVars>>
  \/ \E t \in Threads : Release(t) /\ UNCHANGED <<last, sideVars>>

SpecConc == Init /\ [][NextConc]_vars

\* The goroutines call the map concurrently under a fair scheduler and a
\* fair lock: a goroutine that is not blocked takes its next step, and a
\* goroutine that waits for m.mu gets it when the lock is free again and
\* again.  No goroutine has to call the map.
Runs(t) ==
  /\ \/ FindStep(t)
     \/ WriteStep(t)
     \/ MoveStep(t)
     \/ TruncStep(t)
     \/ ReadStep(t)
     \/ Release(t)
  /\ UNCHANGED <<last, sideVars>>

Locks(t) == Acquire(t) /\ UNCHANGED <<last, sideVars>>

\* The calls made under the fair scheduler: every method of the interface,
\* with an empty and a one-byte key and one value.
FairInvocations ==
  {c \in Invocations :
     /\ c.key \in {KeyArg(<<>>), KeyArg(<<0>>), NilKey}
     /\ c.key = NilKey => c.op \in {"Clear", "AllValues", "NumberOfKeys", "AllKeys"}
     /\ c.v \in {0, 1}}

NextFair ==
  \/ \E t \in Threads, c \in FairInvocations :
        Call(t, c) /\ UNCHANGED <<last, sideVars>>
  \/ \E t \in Threads : Locks(t)
  \/ \E t \in Threads : Runs(t)

SpecFair ==
  /\ Init
  /\ [][NextFair]_vars
  /\ \A t \in Threads : WF_vars(Runs(t)) /\ SF_vars(Locks(t))

\* The goroutines are writers: all they call is AddValue.
NextWriters ==
  \/ \E t \in Threads, k \in ConcKeys, v \in Values :
        Call(t, Invocation("AddValue", k, NilKey, v)) /\ UNCHANGED <<last, sideVars>>
  \/ \E t \in Threads : Acquire(t) /\ UNCHANGED <<last, sideVars>>
  \/ \E t \in Threads : FindStep(t) /\ UNCHANGED <<last, sideVars>>
  \/ \E t \in Threads : WriteStep(t) /\ UNCHANGED <<last, sideVars>>
  \/ \E t \in Threads : Release(t) /\ UNCHANGED <<last, sideVars>>

SpecWriters == Init /\ [][NextWriters]_vars

\* The constructor calls are made.
NextKey == Encode /\ UNCHANGED <<mapVars, lockVars, codecVars, copyVars, nodeVars>>

SpecKey == InitKey /\ [][NextKey]_vars

\* The comparisons are made.
NextOrder == Compare /\ UNCHANGED <<mapVars, lockVars, keyVars, copyVars, nodeVars>>

SpecOrder == InitOrder /\ [][NextOrder]_vars

\* The caller makes a Key of its slice, asks for copies and writes to every
\* slice it holds.
NextCopy ==
  \/ CallFromBytes /\ UNCHANGED <<mapVars, lockVars, keyVars, codecVars, nodeVars>>
  \/ CallBytes /\ UNCHANGED <<mapVars, lockVars, keyVars, codecVars, nodeVars>>
  \/ CallClone /\ UNCHANGED <<mapVars, lockVars, keyVars, codecVars, nodeVars>>
  \/ \E pos \in 1..MaxKeyLen, b \in CodecBytes :
        WriteSrc(pos, b) /\ UNCHANGED <<mapVars, lockVars, keyVars, codecVars, nodeVars>>
  \/ \E pos \in 1..MaxKeyLen, b \in CodecBytes :
        WriteGot(pos, b) /\ UNCHANGED <<mapVars, lockVars, keyVars, codecVars, nodeVars>>
  \/ \E pos \in 1..MaxKeyLen, b \in CodecBytes :
        WriteCloned(pos, b) /\ UNCHANGED <<mapVars, lockVars, keyVars, codecVars, nodeVars>>

SpecCopy == InitCopy /\ [][NextCopy]_vars

\* A tree is built node by node, and then every search key is looked up.
NextTree ==
  \/ \E parent \in 1..MaxNodes, b \in TreeBytes, kind \in ChildKinds,
        suffix \in Suffixes :
        PutChild(parent, b, kind, suffix)
          /\ UNCHANGED <<mapVars, lockVars, keyVars, codecVars, copyVars>>
  \/ \E b \in TreeBytes :
        PutKeyByte(1, b)
          /\ UNCHANGED <<mapVars, lockVars, keyVars, codecVars, copyVars>>
  \/ Lookup /\ UNCHANGED <<mapVars, lockVars, keyVars, codecVars, copyVars>>

SpecTree == InitTree /\ [][NextTree]_vars

\* A tree is built; then a key is inserted that needs a new Leaf, and is
\* looked up.
NextInsert ==
  \/ /\ ~ins.set
     /\ \E parent \in 1..MaxNodes, b \in TreeBytes, kind \in ChildKinds,
           suffix \in Suffixes : PutChild(parent, b, kind, suffix)
     /\ UNCHANGED <<mapVars, lockVars, keyVars, codecVars, copyVars>>
  \/ /\ \E key \in InsertKeys, skip \in PrefixStarts : InsertNewLeaf(key, skip)
     /\ UNCHANGED <<mapVars, lockVars, keyVars, codecVars, copyVars>>
  \/ /\ LookupInserted
     /\ UNCHANGED <<mapVars, lockVars, keyVars, codecVars, copyVars>>

SpecInsert == InitTree /\ [][NextInsert]_vars

\* Children are put below the root, presence bits are set and cleared; then
\* every node is asked for every key.
NextBitmap ==
  \/ /\ \E b \in TreeBytes, kind \in ChildKinds, suffix \in Suffixes :
           PutChild(1, b, kind, suffix)
     /\ UNCHANGED <<mapVars, lockVars, keyVars, codecVars, copyVars>>
  \/ /\ \E b \in TreeBytes : PutKeyByte(1, b)
     /\ UNCHANGED <<mapVars, lockVars, keyVars, codecVars, copyVars>>
  \/ /\ \E p \in 1..MaxNodes, b \in TreeBytes : SetBit(p, b)
     /\ UNCHANGED <<mapVars, lockVars, keyVars, codecVars, copyVars>>
  \/ /\ \E p \in 1..MaxNodes, b \in TreeBytes : ClearBit(p, b)
     /\ UNCHANGED <<mapVars, lockVars, keyVars, codecVars, copyVars>>
  \/ /\ LookupAtNodes
     /\ UNCHANGED <<mapVars, lockVars, keyVars, codecVars, copyVars>>

SpecBitmap == InitTree /\ [][NextBitmap]_vars

\* An operation that asserts the tag of the node or dispatches on it is
\* called.
NextTag ==
  \/ /\ \E helper \in CastHelpers : Cast(helper)
     /\ UNCHANGED <<mapVars, lockVars, keyVars, codecVars, copyVars>>
  \/ /\ CallGetMaxChildren
     /\ UNCHANGED <<mapVars, lockVars, keyVars, codecVars, copyVars>>
  \/ /\ \E sk \in SearchKeys : CallGetChild(sk)
     /\ UNCHANGED <<mapVars, lockVars, keyVars, codecVars, copyVars>>

SpecTag == InitTag /\ [][NextTag]_vars

\* Values are added to a node and removed from it, and its set is asked for.
NextValues ==
  \/ /\ \E val \in NodeValues : CallAddValue(val)
     /\ UNCHANGED <<mapVars, lockVars, keyVars, codecVars, copyVars>>
  \/ /\ \E val \in NodeValues : CallRemoveValue(val)
     /\ UNCHANGED <<mapVars, lockVars, keyVars, codecVars, copyVars>>
  \/ /\ CallGetValues
     /\ UNCHANGED <<mapVars, lockVars, keyVars, codecVars, copyVars>>
  \/ /\ \E val \in NodeValues : CallerAddsToValues(val)
     /\ UNCHANGED <<mapVars, lockVars, keyVars, codecVars, copyVars>>

SpecValues == InitValues /\ [][NextValues]_vars

\* The prefix and the type of a node are set, in any order.
NextHeader ==
  \/ /\ \E prefix \in Prefixes : CallSetPrefix(prefix)
     /\ UNCHANGED <<mapVars, lockVars, keyVars, codecVars, copyVars>>
  \/ /\ \E nt \in Tags : CallSetNodeType(nt)
     /\ UNCHANGED <<mapVars, lockVars, keyVars, codecVars, copyVars>>

SpecHeader == InitHeader /\ [][NextHeader]_vars

\* Bits of a bitfield256 are set and cleared.
NextBitfield ==
  \/ /\ \E index \in BitIndices : CallBitfieldSet(index)
     /\ UNCHANGED <<mapVars, lockVars, keyVars, codecVars, copyVars>>
  \/ /\ \E index \in BitIndices : CallBitfieldClear(index)
     /\ UNCHANGED <<mapVars, lockVars, keyVars, codecVars, copyVars>>

SpecBitfield == InitBitfield /\ [][NextBitfield]_vars

\* Children are put into a node and removed from it; the node grows when it
\* is full and may shrink when it is eligible.
NextPolicy ==
  \/ /\ PutOrGrow
     /\ UNCHANGED <<mapVars, lockVars, keyVars, codecVars, copyVars>>
  \/ /\ RemoveOne
     /\ UNCHANGED <<mapVars, lockVars, keyVars, codecVars, copyVars>>
  \/ /\ Shrink
     /\ UNCHANGED <<mapVars, lockVars, keyVars, codecVars, copyVars>>

SpecPolicy == InitPolicy /\ [][NextPolicy]_vars

\* The root gets its children in any order; then every key is looked up in
\* the tree and in the trees with the root of another kind.
NextVariants ==
  \/ \E b \in TreeBytes, kind \in ChildKinds, suffix \in Suffixes :
        PutChild(1, b, kind, suffix)
          /\ UNCHANGED <<mapVars, lockVars, keyVars, codecVars, copyVars>>
  \/ \E b \in TreeBytes :
        PutKeyByte(1, b)
          /\ UNCHANGED <<mapVars, lockVars, keyVars, codecVars, copyVars>>
  \/ LookupInVariants
       /\ UNCHANGED <<mapVars, lockVars, keyVars, codecVars, copyVars>>

SpecVariants == InitTree /\ [][NextVariants]_vars

\* The methods of nodeOps that read the node are called, in any order.
NextEarly ==
  \/ /\ CallCurrentChildCount
     /\ UNCHANGED <<mapVars, lockVars, keyVars, codecVars, copyVars>>
  \/ /\ CallMaxChildCount
     /\ UNCHANGED <<mapVars, lockVars, keyVars, codecVars, copyVars>>
  \/ /\ CallHasCapacityForChild
     /\ UNCHANGED <<mapVars, lockVars, keyVars, codecVars, copyVars>>

SpecEarly == InitEarly /\ [][NextEarly]_vars

\* Bits of a PresenceBitmap are set and cleared.
NextPresence ==
  \/ /\ \E b \in PresenceBytes : CallBitmapSet(b)
     /\ UNCHANGED <<mapVars, lockVars, keyVars, codecVars, copyVars>>
  \/ /\ \E b \in PresenceBytes : CallBitmapClear(b)
     /\ UNCHANGED <<mapVars, lockVars, keyVars, codecVars, copyVars>>

SpecPresence == InitPresence /\ [][NextPresence]_vars

\* A key byte is searched in a sorted node.
NextSearch ==
  /\ \E target \in 0..255 : Search(target)
  /\ UNCHANGED <<mapVars, lockVars, keyVars, codecVars, copyVars>>

SpecSearch == InitSearch /\ [][NextSearch]_vars

\* ------------------------------------------------- what a caller can see
\* Bytewise lexicographic order, stated without the code's loop: a and b
\* agree on their first n bytes, and then a ends first or has the smaller
\* next byte.
LexLess(a, b) ==
  \E n \in 0..Len(a) :
     /\ n <= Len(b)
     /\ \A i \in 1..n : a[i] = b[i]
     /\ \/ n = Len(a) /\ n < Len(b)
        \/ n < Len(a) /\ n < Len(b) /\ a[n + 1] < b[n + 1]

LexLeq(a, b) == a = b \/ LexLess(a, b)

\* The order on the keys of the model, as a table.
Less == [a \in KeySpace, b \in KeySpace |-> LexLess(a, b)]
Leq == [a \in KeySpace, b \in KeySpace |-> LexLeq(a, b)]

\* A new, non-nil set with the elements S.
NewSet(S) == [loc |-> Fresh, nil |-> FALSE, elems |-> S]

\* The keys with an entry, and the union of the value sets stored under the
\* keys of K.
StoredKeys == {k \in KeySpace : ContainsKey(KeyArg(k))}
StoredUnder(K) == UNION {ValuesFor(KeyArg(k)).elems : k \in K \cap StoredKeys}

\* The result of every query of the interface, for every argument.
Observed ==
  [containsKey |-> [k \in KeySpace |-> ContainsKey(KeyArg(k))],
   numberOfKeys |-> NumberOfKeys,
   allKeys |-> [j \in 1..Len(AllKeys) |-> Bytes(AllKeys[j])],
   valuesFor |-> [k \in KeySpace |-> ValuesFor(KeyArg(k)).elems],
   allValues |-> AllValues.elems,
   fromInclusive |-> [k \in KeySpace |-> ValuesFromInclusive(KeyArg(k)).elems],
   fromExclusive |-> [k \in KeySpace |-> ValuesFromExclusive(KeyArg(k)).elems],
   toInclusive |-> [k \in KeySpace |-> ValuesToInclusive(KeyArg(k)).elems],
   toExclusive |-> [k \in KeySpace |-> ValuesToExclusive(KeyArg(k)).elems],
   betweenInclusive |-> [f \in KeySpace, t \in KeySpace |->
                           ValuesBetweenInclusive(KeyArg(f), KeyArg(t)).elems],
   betweenExclusive |-> [f \in KeySpace, t \in KeySpace |->
                           ValuesBetweenExclusive(KeyArg(f), KeyArg(t)).elems]]

\* Every query gives the same answer after the step as before it.  The
\* answers are computed from m.data alone, so they are only compared when
\* the step changed m.data.
SameAnswers == data' = data \/ Observed' = Observed

\* ---------------------------------------------------------------- claims
\* C1: after any sequence of AddValue, RemoveValue, RemoveKey and Clear
\* calls, ValuesFor(k) is a non-nil set holding exactly the values added
\* under k and not removed since by RemoveValue(k, v), RemoveKey(k) or Clear;
\* it is empty for a key with no such value.
C1_ValuesForIsLiveSet ==
  \A k \in KeySpace : ValuesFor(KeyArg(k)) = NewSet(live[k])

\* A key holds both values while all values of another key were removed one
\* by one.
C1_Witness ==
  \E k1, k2 \in KeySpace :
     /\ live[k1] = Values
     /\ k2 \in addedKeys /\ live[k2] = {}
     /\ ValuesFor(KeyArg(k1)).elems = Values

\* C2: ContainsKey(k) is true if and only if k currently has a non-empty
\* value set.
C2_ContainsKeyIffNonEmpty ==
  \A k \in KeySpace :
     ContainsKey(KeyArg(k)) <=> ValuesFor(KeyArg(k)).elems # {}

\* C3: NumberOfKeys() is the number of distinct keys whose value set is
\* currently non-empty.
C3_NumberOfKeysCountsNonEmpty ==
  NumberOfKeys = Cardinality({k \in KeySpace : ValuesFor(KeyArg(k)).elems # {}})

\* C4: the keys AllKeys() returns are exactly the keys added and not removed
\* since by RemoveKey or Clear, and AllKeys() has NumberOfKeys() elements.
C4_AllKeysAreAddedKeys ==
  /\ {Bytes(AllKeys[j]) : j \in 1..Len(AllKeys)} = addedKeys
  /\ Len(AllKeys) = NumberOfKeys

\* RemoveKey has just removed a stored key, and another key is still stored.
C4_Witness ==
  /\ last.op = "RemoveKey" /\ last.hit
  /\ Len(AllKeys) = 1
  /\ Cardinality(addedKeys) = 1

\* C5: each of the six range queries returns a non-nil set holding exactly
\* the union of the value sets of the stored keys within its bounds in
\* bytewise lexicographic order, whether or not the bound keys are stored.
C5_RangeQueriesFollowLexOrder ==
  /\ \A f, t \in KeySpace :
        /\ ValuesBetweenInclusive(KeyArg(f), KeyArg(t))
             = NewSet(StoredUnder({k \in KeySpace : Leq[f, k] /\ Leq[k, t]}))
        /\ ValuesBetweenExclusive(KeyArg(f), KeyArg(t))
             = NewSet(StoredUnder({k \in KeySpace : Less[f, k] /\ Less[k, t]}))
  /\ \A b \in KeySpace :
        /\ ValuesFromInclusive(KeyArg(b))
             = NewSet(StoredUnder({k \in KeySpace : Leq[b, k]}))
        /\ ValuesFromExclusive(KeyArg(b))
             = NewSet(StoredUnder({k \in KeySpace : Less[b, k]}))
        /\ ValuesToInclusive(KeyArg(b))
             = NewSet(StoredUnder({k \in KeySpace : Leq[k, b]}))
        /\ ValuesToExclusive(KeyArg(b))
             = NewSet(StoredUnder({k \in KeySpace : Less[k, b]}))

\* Two keys are stored with different values, one a strict prefix of the
\* other, and a range between two bounds that are not stored selects the
\* longer key alone.
C5_Witness ==
  \E f, t \in KeySpace \ StoredKeys :
     /\ StoredKeys = {<<0>>, <<0, 1>>}
     /\ live[<<0>>] = {1} /\ live[<<0, 1>>] = {2}
     /\ ValuesBetweenInclusive(KeyArg(f), KeyArg(t)).elems = {2}
     /\ ValuesBetweenExclusive(KeyArg(f), KeyArg(t)).elems = {2}
     /\ ValuesToExclusive(KeyArg(t)).elems = {1, 2}
     /\ ValuesFromExclusive(KeyArg(<<0>>)).elems = {2}

\* C6: ValuesBetweenInclusive(from, to) and ValuesBetweenExclusive(from, to)
\* with from greater than to by Key.LessThan return an empty, non-nil set.
C6_ReversedBoundsGiveEmptySet ==
  \A f, t \in KeySpace :
     LessThan(KeyArg(t), KeyArg(f)) =>
        /\ ValuesBetweenInclusive(KeyArg(f), KeyArg(t)) = EmptySet
        /\ ValuesBetweenExclusive(KeyArg(f), KeyArg(t)) = EmptySet

\* A key with a value lies strictly between two bounds, so the query with
\* the bounds in order is not empty and the reversed one is.
C6_Witness ==
  \E f, t \in KeySpace :
     /\ LessThan(KeyArg(t), KeyArg(f))
     /\ ValuesBetweenExclusive(KeyArg(t), KeyArg(f)).elems # {}
     /\ ValuesBetweenInclusive(KeyArg(f), KeyArg(t)).elems = {}

\* C7: AllValues() is a non-nil set holding exactly the union of the value
\* sets of all stored keys, and it is empty when nothing is stored.
C7_AllValuesIsUnion ==
  /\ AllValues = NewSet(StoredUnder(KeySpace))
  /\ data = <<>> => AllValues = EmptySet

\* Two keys are stored, one value under both of them and another value
\* under the second alone.
C7_Witness ==
  \E k1, k2 \in KeySpace :
     /\ k1 # k2
     /\ live[k1] = {1} /\ live[k2] = {1, 2}
     /\ Find(KeyArg(k1)) = 1 /\ Find(KeyArg(k2)) = 2
     /\ AllValues.elems = {1, 2}

\* C8: a set returned by ValuesFor, AllValues or a range query is
\* independent of the stored state: when the caller adds a value to it or
\* removes one from it, the result of no query on the map changes.
C8_ReturnedSetsAreIndependent ==
  [][last'.op = "CallerMutatesResult" => SameAnswers]_vars

\* The caller has removed a value from a returned set that held it, while
\* the map stores that value.
C8_Witness ==
  /\ last.op = "CallerMutatesResult" /\ ~last.hit
  /\ AllValues.elems # {}

\* C9: AddValue stores a copy of the key and AllKeys returns copies: when
\* the caller overwrites a byte of a Key it passed to AddValue, or of a Key
\* AllKeys returned, the stored keys, ContainsKey and AllKeys do not change.
C9_KeysAreCopied ==
  [][last'.op \in {"CallerWritesPassedKey", "CallerWritesReturnedKey"} =>
       /\ [i \in 1..Len(data') |-> data'[i].key.bytes]
            = [i \in 1..Len(data) |-> data[i].key.bytes]
       /\ SameAnswers]_vars

\* The caller has overwritten a byte of the Key it passed to the AddValue
\* call that created a stored entry.
C9_Witness ==
  /\ last.op = "CallerWritesPassedKey"
  /\ \E k \in KeySpace : Len(k) > 0 /\ ContainsKey(KeyArg(k)) /\ live[k] # {}

\* C10: RemoveValue(k, v) with k not stored, or with v not in the set of k,
\* changes the result of no query.
C10_RemoveValueMissIsNoOp ==
  [][last'.op = "RemoveValue" /\ ~last'.hit => SameAnswers]_vars

\* RemoveValue has just missed while a key holds exactly one value.
C10_Witness ==
  /\ last.op = "RemoveValue" /\ ~last.hit
  /\ \E k \in KeySpace : Cardinality(live[k]) = 1

\* C11: RemoveKey(k) removes k and nothing else: after the call
\* ContainsKey(k) is false and ValuesFor(k) is empty, NumberOfKeys() is one
\* less when k had an entry and the same otherwise, and ContainsKey(k2) and
\* ValuesFor(k2) are the same as before for every other key k2.
C11_RemoveKeyRemovesOnlyKey ==
  [][last'.op = "RemoveKey" =>
       \A k \in KeySpace :
          RemoveKey(KeyArg(k)) =>
             /\ ~ContainsKey(KeyArg(k))'
             /\ ValuesFor(KeyArg(k))' = EmptySet
             /\ NumberOfKeys' = IF ContainsKey(KeyArg(k))
                                THEN NumberOfKeys - 1 ELSE NumberOfKeys
             /\ \A k2 \in KeySpace \ {k} :
                   /\ ContainsKey(KeyArg(k2))' = ContainsKey(KeyArg(k2))
                   /\ ValuesFor(KeyArg(k2))' = ValuesFor(KeyArg(k2))]_vars

\* RemoveKey has just removed a stored key while another key, which keeps
\* both of its values, is stored.
C11_Witness ==
  /\ last.op = "RemoveKey" /\ last.hit
  /\ NumberOfKeys = 1
  /\ \E k \in KeySpace : ValuesFor(KeyArg(k)).elems = Values

\* C12: after Clear(), whatever the map held, NumberOfKeys() is 0, AllKeys()
\* and AllValues() are empty, ContainsKey is false for every key, and m.data
\* is what it is in a newly created map, so every later call behaves as on a
\* new map.
C12_ClearGivesNewMap ==
  last.op = "Clear" =>
     /\ NumberOfKeys = 0
     /\ AllKeys = <<>>
     /\ AllValues = EmptySet
     /\ \A k \in KeySpace : ~ContainsKey(KeyArg(k))
     /\ data = <<>>

\* Clear has just been called on a map that held entries.
C12_Witness ==
  /\ last.op = "Clear" /\ last.hit
  /\ NumberOfKeys = 0

\* C13: AddValue(k, v) with v already stored under k changes the result of no
\* query; AddValue under a key that has an entry leaves NumberOfKeys() as it
\* is, and AddValue under a key without an entry increases it by exactly 1.
C13_AddValueIsIdempotent ==
  [][last'.op = "AddValue" =>
       \A k \in KeySpace, v \in Values :
          AddValue(KeyArg(k), v) =>
             /\ v \in ValuesFor(KeyArg(k)).elems => SameAnswers
             /\ ContainsKey(KeyArg(k)) => NumberOfKeys' = NumberOfKeys
             /\ ~ContainsKey(KeyArg(k)) => NumberOfKeys' = NumberOfKeys + 1]_vars

\* AddValue has just been called with a value its key already held, while
\* that key holds a second value and another key is stored.
C13_Witness ==
  /\ last.op = "AddValue" /\ last.hit
  /\ NumberOfKeys = 2
  /\ \E k \in KeySpace : live[k] = Values

\* ------------------------------------------- where a goroutine stands
\* Goroutine t is between the return of Lock or RLock and the deferred
\* Unlock or RUnlock of a mutator, of a read-only method.
InCS(t) == thr[t].pc \in {"find", "write", "move", "trunc", "read", "unlock"}
InWriterCS(t) == InCS(t) /\ thr[t].op \in Mutators
InReaderCS(t) == InCS(t) /\ thr[t].op \in Readers

\* No call is in progress.
AllReturned == \A t \in Threads : thr[t].pc = "idle"

\* The number of entries of m.data with the key bytes k.
EntriesOf(k) == Cardinality({i \in 1..Len(data) : data[i].key.bytes = k})

\* C14: when the goroutines call AddValue concurrently, on the same key or
\* not, then in every interleaving, once all calls have returned, every key
\* added is stored exactly once and its value set is the union of the values
\* all goroutines added under it.
C14_ConcurrentAddsAreNotLost ==
  AllReturned =>
     \A k \in KeySpace :
        /\ EntriesOf(k) = IF k \in addedKeys THEN 1 ELSE 0
        /\ ValuesFor(KeyArg(k)).elems = live[k]

\* All calls have returned, both values were added under one key, and another
\* key was added as well.
C14_Witness ==
  /\ AllReturned
  /\ Cardinality(addedKeys) = 2
  /\ \E k \in addedKeys : live[k] = Values /\ EntriesOf(k) = 1

\* C15: while a goroutine is in the critical section of a mutator (AddValue,
\* RemoveValue, RemoveKey, Clear), no other goroutine is in the critical
\* section of any method; m.mu records one writer or the readers.  (Two
\* readers inside at the same time: C15_Witness.)
C15_MutatorsAreAlone ==
  /\ \A t \in Threads : InWriterCS(t) => \A u \in Threads \ {t} : ~InCS(u)
  /\ mu.writer <=> \E t \in Threads : InWriterCS(t)
  /\ mu.readers = Cardinality({t \in Threads : InReaderCS(t)})

\* Two goroutines are in the critical sections of read-only methods at the
\* same time, one of them in a point query and one in a range query.
C15_Witness ==
  /\ InReaderCS(1) /\ InReaderCS(2)
  /\ thr[1].op = "ValuesFor" /\ thr[2].op = "ValuesBetweenInclusive"
  /\ mu.readers = 2

\* C16: a reader never sees a half-applied mutation: while a goroutine is in
\* the critical section of a read-only method, m.data is what the last
\* mutator that returned left (or the new map), the result the reader
\* computed is the method's result on that state, and AllKeys has returned
\* every key added exactly once.
C16_ReadersSeeWholeMutations ==
  \A t \in Threads :
     InReaderCS(t) =>
        /\ data = committed
        /\ thr[t].pc = "unlock" =>
              /\ thr[t].res = Answer(thr[t])
              /\ thr[t].res.kind = "keys" =>
                    /\ {Bytes(thr[t].res.ks[j]) : j \in 1..Len(thr[t].res.ks)} = addedKeys
                    /\ Len(thr[t].res.ks) = Cardinality(addedKeys)

\* AllKeys has computed its result of two keys while the other goroutine has
\* called RemoveKey and waits for the lock.
C16_Witness ==
  \E t, u \in Threads :
     /\ thr[t].pc = "unlock" /\ thr[t].op = "AllKeys"
     /\ Len(thr[t].res.ks) = 2
     /\ thr[u].pc = "lock" /\ thr[u].op = "RemoveKey"
     /\ ContainsKey(thr[u].key)

\* C17: effects are visible in the order of the lock releases: whenever the
\* write lock is not held, the stored keys and sets are those the mutators
\* that have returned give when applied one after the other in the order of
\* their releases, and the set ValuesFor computed holds every value added
\* under its key by an AddValue that returned and not removed since.
C17_ReleasedWritesAreVisible ==
  /\ ~mu.writer =>
        \A k \in KeySpace :
           /\ ValuesFor(KeyArg(k)).elems = live[k]
           /\ ContainsKey(KeyArg(k)) <=> k \in addedKeys
  /\ \A t \in Threads :
        (thr[t].pc = "unlock" /\ thr[t].op = "ValuesFor") =>
           thr[t].res.s.elems = live[Bytes(thr[t].key)]

\* ValuesFor has computed a set with both values of its key, after the two
\* AddValue calls returned, while the other goroutine has called RemoveValue
\* on that key and waits for the lock.
C17_Witness ==
  \E t, u \in Threads :
     /\ thr[t].pc = "unlock" /\ thr[t].op = "ValuesFor"
     /\ thr[t].res.s.elems = Values
     /\ thr[u].pc = "lock" /\ thr[u].op = "RemoveValue"
     /\ Equal(thr[u].key, thr[t].key)

\* C18: no interleaving of calls, with nil, empty, absent and stored keys
\* and with from greater than to, makes a call panic.
C18_NoCallPanics ==
  /\ ~panicked
  /\ \A t \in Threads : thr[t].pc # "panicked"

\* RemoveKey of a nil key has run through an empty map and reached its
\* return, while the other goroutine has called Clear.
C18_Witness ==
  \E t, u \in Threads :
     /\ thr[t].op = "RemoveKey" /\ thr[t].key = NilKey
     /\ thr[t].pc = "unlock" /\ thr[t].i = 0
     /\ data = <<>>
     /\ thr[u].op = "Clear" /\ thr[u].pc = "lock"
     /\ ~panicked

\* ------------------------------------------------- integers as numbers
\* The number a word stands for, stated without the constructors' code: its
\* sign, and the bytes of its absolute value without leading zeros, the least
\* significant byte first.
Negative(f, w) == f \in SignedConstructors /\ w[Len(w)] >= 128

\* -w for a word in two's complement: every byte inverted, plus one.
RECURSIVE IncCarry(_, _)
IncCarry(w, j) ==
  IF j = 1 THEN 1
  ELSE IF (255 - w[j - 1]) + IncCarry(w, j - 1) > 255 THEN 1 ELSE 0

Negate(w) == [j \in 1..Len(w) |-> ((255 - w[j]) + IncCarry(w, j)) % 256]

RECURSIVE Strip(_)
Strip(w) ==
  IF w = <<>> THEN w
  ELSE IF w[Len(w)] = 0 THEN Strip(SubSeq(w, 1, Len(w) - 1)) ELSE w

Numeral(f, w) ==
  [neg |-> Negative(f, w),
   mag |-> Strip(IF Negative(f, w) THEN Negate(w) ELSE w)]

\* x < y for two absolute values, and p < q for two numbers.
MagLess(x, y) ==
  \/ Len(x) < Len(y)
  \/ /\ Len(x) = Len(y)
     /\ \E j \in 1..Len(x) :
           x[j] < y[j] /\ \A i \in (j + 1)..Len(x) : x[i] = y[i]

NumLess(p, q) ==
  \/ p.neg /\ ~q.neg
  \/ ~p.neg /\ ~q.neg /\ MagLess(p.mag, q.mag)
  \/ p.neg /\ q.neg /\ MagLess(q.mag, p.mag)

\* The 8 bytes of (p + 2^63) mod 2^64, the most significant byte first: the
\* 8 bytes of p mod 2^64 with the top bit flipped.
BiasedBigEndian(p) ==
  LET m == [j \in 1..8 |-> IF j <= Len(p.mag) THEN p.mag[j] ELSE 0]
      d == IF p.neg THEN Negate(m) ELSE m
  IN [j \in 1..8 |-> IF j = 1 THEN (d[8] + 128) % 256 ELSE d[9 - j]]

\* C19: for two values a, b of one signed integer type, a < b if and only if
\* the Key of a is LessThan the Key of b; and the Key of every integer, of
\* any type, is the 8 bytes of the value plus 2^63 modulo 2^64, the most
\* significant byte first.
C19_SignedOrderIsKeyOrder ==
  kout.set =>
     /\ Bytes(kout.ka) = BiasedBigEndian(Numeral(kin.f, kin.a))
     /\ Len(Bytes(kout.ka)) = 8
     /\ (kin.f = kin.g /\ kin.f \in SignedConstructors /\ Len(kin.a) = Len(kin.b)) =>
           (NumLess(Numeral(kin.f, kin.a), Numeral(kin.g, kin.b))
              <=> LessThan(kout.ka, kout.kb))

\* The smallest int64 and -1 were made Keys, and the first Key is the
\* smaller one.
C19_Witness ==
  /\ kout.set
  /\ kin.f = "FromInt64" /\ kin.g = "FromInt64"
  /\ kin.a = <<0, 0, 0, 0, 0, 0, 0, 128>> /\ kin.b = Word(-1, 8)
  /\ LessThan(kout.ka, kout.kb)
  /\ Bytes(kout.ka) = <<0, 0, 0, 0, 0, 0, 0, 0>>

\* C20: two integers that stand for the same number give Keys with the same
\* bytes, whatever their types' width and signedness.
C20_EqualNumbersGiveEqualKeys ==
  (kout.set /\ Numeral(kin.f, kin.a) = Numeral(kin.g, kin.b)) =>
     /\ Bytes(kout.ka) = Bytes(kout.kb)
     /\ Equal(kout.ka, kout.kb)

\* -1 as an int8 and as an int64 were made Keys.
C20_Witness ==
  /\ kout.set
  /\ kin.f = "FromInt8" /\ kin.g = "FromInt64"
  /\ kin.a = Word(-1, 1) /\ kin.b = Word(-1, 8)
  /\ Bytes(kout.ka) = <<127, 255, 255, 255, 255, 255, 255, 255>>

\* C21: two integers that stand for different numbers, each given to any
\* constructor that accepts it, give Keys that differ.
C21_DistinctNumbersGiveDistinctKeys ==
  (kout.set /\ Numeral(kin.f, kin.a) # Numeral(kin.g, kin.b)) =>
     /\ Bytes(kout.ka) # Bytes(kout.kb)
     /\ ~Equal(kout.ka, kout.kb)

\* C22: for two integers given to any two constructors, signed or unsigned,
\* the first number is smaller than the second if and only if the Key of the
\* first is LessThan the Key of the second.
C22_NumericOrderIsKeyOrderAcrossTypes ==
  kout.set =>
     (NumLess(Numeral(kin.f, kin.a), Numeral(kin.g, kin.b))
        <=> LessThan(kout.ka, kout.kb))

\* ------------------------------------------------------ Keys as sequences
\* Exactly one of the three statements is true.
ExactlyOne(p, q, r) == (p /\ ~q /\ ~r) \/ (~p /\ q /\ ~r) \/ (~p /\ ~q /\ r)

\* a and b have the same first n bytes.
AgreeOn(a, b, n) ==
  /\ n <= Len(a) /\ n <= Len(b)
  /\ \A i \in 1..n : a[i] = b[i]

\* C23: for all Keys a, b, c (nil included): exactly one of a.LessThan(b),
\* b.LessThan(a), a.Equal(b) holds; Equal is equality of the contents; the
\* first byte where a and b differ decides; a strict prefix is smaller than
\* the longer Key; an empty or nil Key is smaller than every non-empty one;
\* and a.LessThan(b) and b.LessThan(c) give a.LessThan(c).
C23_LessThanIsStrictTotalOrder ==
  cmp.set =>
     \A i, j \in 1..3 :
        LET a == Bytes(ks[i])
            b == Bytes(ks[j])
        IN /\ ExactlyOne(cmp.lessThan[i, j], cmp.lessThan[j, i], cmp.equal[i, j])
           /\ cmp.equal[i, j] <=> a = b
           /\ \A n \in 1..MaxKeyLen :
                 (AgreeOn(a, b, n - 1) /\ n <= Len(a) /\ n <= Len(b) /\ a[n] # b[n])
                    => (cmp.lessThan[i, j] <=> a[n] < b[n])
           /\ (AgreeOn(a, b, Len(a)) /\ Len(a) < Len(b)) => cmp.lessThan[i, j]
           /\ (Len(a) = 0 /\ Len(b) > 0) => cmp.lessThan[i, j]
           /\ \A k \in 1..3 :
                 (cmp.lessThan[i, j] /\ cmp.lessThan[j, k]) => cmp.lessThan[i, k]

\* nil, a Key and a Key it is a strict prefix of were compared, and LessThan
\* put them in this order.
C23_Witness ==
  /\ cmp.set
  /\ ks = <<NilKey, KeyArg(<<1>>), KeyArg(<<1, 0>>)>>
  /\ cmp.lessThan[1, 2] /\ cmp.lessThan[2, 3] /\ cmp.lessThan[1, 3]
  /\ ~cmp.lessThan[3, 1] /\ ~cmp.equal[1, 2]

\* C24: once k = FromBytes(b) is made, k holds the bytes b had at the call
\* and k.Bytes() returns them, whatever the caller writes afterwards into b,
\* into a slice k.Bytes() returned or into a Key k.Clone() returned; the
\* slice and the clone are returned with those bytes as well.
C24_FromBytesAndBytesCopy ==
  made # Unset =>
     /\ Bytes(made) = orig
     /\ Bytes(KeyBytes(MadeKey)) = orig
     /\ Bytes(KeyBytes(FromBytes(src))) = Bytes(src)

\* The caller made a Key of a slice of two bytes, and then wrote to the
\* slice, to the slice Bytes() returned and to the Key Clone() returned.
C24_Witness ==
  /\ made # Unset /\ got # Unset /\ cloned # Unset
  /\ orig = <<1, 255>>
  /\ Bytes(src) = <<0, 255>>
  /\ Bytes(got) = <<1, 0>>
  /\ Bytes(cloned) = <<255, 255>>
  /\ Bytes(made) = <<1, 255>>

\* C25: n = LongestCommonPrefix(a, b) is the number of equal leading bytes:
\* a and b have the same first n bytes, and n is the length of the shorter
\* Key or the bytes after the first n differ; LongestCommonPrefix(b, a) is
\* the same number; and n = 0 when a or b is empty or nil.
C25_LongestCommonPrefixCountsLeadingBytes ==
  cmp.set =>
     \A i, j \in 1..3 :
        LET a == Bytes(ks[i])
            b == Bytes(ks[j])
            n == cmp.lcp[i, j]
        IN /\ n \in 0..MaxKeyLen
           /\ AgreeOn(a, b, n)
           /\ \/ n = Len(a) /\ n <= Len(b)
              \/ n = Len(b) /\ n <= Len(a)
              \/ n < Len(a) /\ n < Len(b) /\ a[n + 1] # b[n + 1]
           /\ cmp.lcp[j, i] = n
           /\ (Len(a) = 0 \/ Len(b) = 0) => n = 0

\* Two Keys with the same first byte and different second bytes, and nil,
\* were compared.
C25_Witness ==
  /\ cmp.set
  /\ ks = <<KeyArg(<<1, 0>>), KeyArg(<<1, 255>>), NilKey>>
  /\ cmp.lcp[1, 2] = 1 /\ cmp.lcp[2, 1] = 1
  /\ cmp.lcp[1, 1] = 2
  /\ cmp.lcp[1, 3] = 0 /\ cmp.lcp[3, 3] = 0

\* ------------------------------------------------------- trees as paths
\* The nodes made for the key sk.
NodesAt(sk) == {ptr \in 1..Len(nodes) : paths[ptr] = sk}

\* The inline prefix of every node but the root starts with the byte its
\* parent stores it under, and the inline prefixes from the root down to a
\* node, concatenated, are the key the node was made for.
PrefixesFollowKeyBytes ==
  \A ptr \in 2..Len(nodes) :
     \E q \in 1..Len(nodes) :
        LET first == Len(paths[q]) + 1
        IN /\ paths[ptr] = paths[q] \o GetPrefix(nodes[ptr])
           /\ GetPrefixLen(nodes[ptr]) > 0
           /\ HasChildFor(nodes[q], paths[ptr][first])
           /\ \E j \in 1..Len(nodes[q].child) : nodes[q].child[j] = ptr

\* C26: in a tree where the inline prefix of every child starts with the
\* byte its parent stores it under, root.getChild(Key{}, searchKey) returns
\* without a panic the one node whose inline prefixes from the root down,
\* concatenated, are searchKey, and nil when there is no such node.
C26_GetChildFindsNodeOfKey ==
  found.set =>
     /\ PrefixesFollowKeyBytes
     /\ \A sk \in SearchKeys :
           /\ ~found.node[sk].panic
           /\ IF NodesAt(sk) = {}
              THEN found.node[sk].node = 0
              ELSE NodesAt(sk) = {found.node[sk].node}

\* A tree of three nodes in a chain was searched: the key of the last node
\* is found, a key that differs inside its prefix is not, nor is a strict
\* prefix of its key, nor a key that goes on with a byte the last node has
\* no child for.
C26_Witness ==
  /\ found.set
  /\ Len(nodes) = 3
  /\ GetNodeType(nodes[1]) = NodeType512
  /\ GetNodeType(nodes[2]) = NodeType64
  /\ paths[3] = <<200, 0, 0, 200, 0>>
  /\ found.node[<<200, 0, 0, 200, 0>>].node = 3
  /\ found.node[<<200, 0, 0, 200, 200>>].node = 0
  /\ found.node[<<200, 0, 0, 200>>].node = 0
  /\ found.node[<<200, 0, 0>>].node = 2
  /\ found.node[<<200, 0, 200>>].node = 0

\* -------------------------------------------------- insert and lookup
\* The inline prefix the new Leaf was given fits the prefix array.
InsertedPrefixFits == Len(ins.key) - (ins.lcp + ins.skip) <= maxLocalPrefixLen

\* C27 (as stated): after insert added under b = key[lcp] a new Leaf whose
\* inline prefix is key[lcp+1 ..], the lookup of key from the root returns
\* that Leaf.
C27_LeafWithSuffixIsFound ==
  (ins.set /\ ins.looked /\ ins.skip = 1) => ins.got = Returned(ins.leaf)

\* C27 (amended): after insert added under b = key[lcp] a new Leaf whose
\* inline prefix is key[lcp ..] (b followed by the remaining suffix), of at
\* most 14 bytes, the lookup of key from the root returns that Leaf.
C27_LeafWithKeyByteAndSuffixIsFound ==
  (ins.set /\ ins.looked /\ ins.skip = 0 /\ InsertedPrefixFits)
    => ins.got = Returned(ins.leaf)

\* A Leaf was put below a node that is not the root, for a key that goes on
\* after b, and the lookup returned it.
C27_Witness ==
  /\ ins.set /\ ins.looked /\ ins.skip = 0
  /\ ins.parent # 1
  /\ GetNodeType(nodes[ins.parent]) = NodeType64
  /\ Len(ins.key) > ins.lcp + 1
  /\ ins.got = Returned(ins.leaf)

\* -------------------------------------------------------- binary search
\* The indices (from 0) below numChildren whose key byte is target.
IndicesOf(n, target) ==
  {i \in 0..(n.numChildren - 1) : n.firstKeyByte[i + 1] = target}

\* C28: binarySearchKeyByte(target) on a Node512 or Node1024 with strictly
\* ascending key bytes returns the index below numChildren whose key byte is
\* target, and -1 when there is none, for every numChildren from 0 to the
\* capacity and every target byte.
C28_BinarySearchFindsKeyByte ==
  found.set =>
     IF IndicesOf(nodes[1], found.target) = {}
     THEN found.position = 0 - 1
     ELSE found.position \in IndicesOf(nodes[1], found.target)

\* -------------------------------------------------------- presence bits
\* The local key of node p is a strict prefix of sk.
ContinuesPast(p, sk) ==
  /\ Len(paths[p]) < Len(sk)
  /\ SubSeq(sk, 1, Len(paths[p])) = paths[p]

\* The byte b is among the first numChildren key bytes of n.
AmongKeyBytes(n, b) == \E i \in 1..n.numChildren : n.firstKeyByte[i] = b

\* C29: when the search continues past a node with a bitmap and the
\* presence bit of the next search byte is clear, getChild returns nil,
\* whatever the key bytes hold; when the bit is set in a Node512 or Node1024
\* and the byte is not among the sorted key bytes, getChild panics.
C29_PresenceBitDecides ==
  found.set =>
     \A p \in 1..Len(nodes), sk \in SearchKeys :
        ContinuesPast(p, sk) =>
           LET n == nodes[p]
               b == sk[Len(paths[p]) + 1]
           IN /\ (n.kind \in BitmapKinds /\ ~BitmapGet(n.bitmap, b))
                   => found.at[p][sk] = Returned(0)
              /\ (n.kind \in SortedKinds /\ BitmapGet(n.bitmap, b)
                     /\ ~AmongKeyBytes(n, b))
                   => found.at[p][sk].panic

\* The root is a Node512 that holds a child for byte 200 whose presence bit
\* was cleared, and the presence bit of byte 0 was set without a child: the
\* key of the child is not found, and the lookup through byte 0 panics.
C29_Witness ==
  /\ found.set
  /\ nodes[1].kind = NodeType512
  /\ AmongKeyBytes(nodes[1], 200)
  /\ ~BitmapGet(nodes[1].bitmap, 200)
  /\ ~AmongKeyBytes(nodes[1], 0)
  /\ BitmapGet(nodes[1].bitmap, 0)
  /\ Len(nodes) = 2
  /\ found.at[1][paths[2]] = Returned(0)
  /\ found.at[1][paths[1] \o <<0>>].panic
  /\ found.at[2][paths[2]] = Returned(2)

\* ------------------------------------------------------------ node tags
\* C30: a cast helper panics on a node whose tag is not the one it asks
\* for, and GetMaxChildren and getChild panic on a node whose tag is none
\* of the seven NodeType constants.
C30_WrongOrUnknownTagPanics ==
  found.set =>
     /\ (found.op \in CastHelpers /\ GetNodeType(nodes[1]) # TagOf(found.op))
          => found.panic
     /\ (found.op \in {"GetMaxChildren", "getChild"}
            /\ GetNodeType(nodes[1]) \in UnknownTags)
          => found.panic

\* ----------------------------------------------------------- node values
\* The values a value pointer stands for: none when it is nil.
ValuesOf(ptr) == IF ptr.nil THEN {} ELSE ptr.elems

\* C31: Node.RemoveValue(v) leaves exactly the values other than v, whatever
\* the size of the set was, and the node has no value afterwards only when
\* no value is left.
C31_RemoveValueRemovesOnlyValue ==
  (found.set /\ found.op = "RemoveValue") =>
     /\ ValuesOf(nodes[1].value) = ValuesOf(found.before) \ {found.v}
     /\ ~NodeHasValue(nodes[1]) <=> ValuesOf(found.before) \ {found.v} = {}

\* C32: the value pointer of a node is never a non-nil empty set; it is nil
\* exactly when HasValue() is false; HasValue() is true after AddValue;
\* GetValues() returns a new non-nil set with the values of the node, and a
\* write to it does not reach the node.
C32_ValuePointerIsNilOrNonEmpty ==
  /\ nodes[1].value.nil \/ nodes[1].value.elems # {}
  /\ nodes[1].value.nil <=> ~NodeHasValue(nodes[1])
  /\ found.set =>
       /\ found.op = "AddValue" => NodeHasValue(nodes[1])
       /\ found.op = "GetValues" =>
            /\ ~found.res.nil
            /\ found.res.loc = Fresh
            /\ found.res.elems = ValuesOf(nodes[1].value)
       /\ found.op = "CallerAdds" => nodes[1].value = found.before

\* The node holds two values, and the caller added a third one to the set
\* GetValues returned.
C32_Witness ==
  /\ found.set
  /\ found.op = "CallerAdds"
  /\ nodes[1].value = [nil |-> FALSE, elems |-> {1, 2}]
  /\ found.res.elems = {1, 2, 3}

\* ---------------------------------------------------- prefix and type
\* The first bytes of p, as many as the prefix array holds.
Kept(p) ==
  SubSeq(p, 1, IF Len(p) < maxLocalPrefixLen THEN Len(p) ELSE maxLocalPrefixLen)

\* C33: after any calls of setPrefix and setNodeType, GetPrefixLen() is at
\* most 14, GetPrefix() is the first min(len(p), 14) bytes of the last
\* prefix p given and the bytes of the array behind them are zero; setPrefix
\* leaves GetNodeType() as it was, setNodeType leaves GetPrefixLen() and
\* GetPrefix() as they were.
C33_PrefixAndTypeAreIndependent ==
  /\ GetPrefixLen(nodes[1]) <= maxLocalPrefixLen
  /\ found.set =>
       /\ found.given =>
            /\ GetPrefix(nodes[1]) = Kept(found.prefix)
            /\ \A j \in 1..maxLocalPrefixLen :
                  j > Len(Kept(found.prefix)) => nodes[1].localPrefix[j] = 0
       /\ found.op = "setPrefix" =>
            GetNodeType(nodes[1]) = GetNodeType(found.before)
       /\ found.op = "setNodeType" =>
            /\ GetPrefixLen(nodes[1]) = GetPrefixLen(found.before)
            /\ GetPrefix(nodes[1]) = GetPrefix(found.before)

\* A prefix of 24 bytes was cut to 14, then the type was set to Node512
\* and the prefix stayed.
C33_Witness ==
  /\ found.set
  /\ found.op = "setNodeType"
  /\ found.given
  /\ Len(found.prefix) = 24
  /\ GetPrefixLen(nodes[1]) = 14
  /\ GetPrefix(nodes[1]) = SubSeq(found.prefix, 1, 14)
  /\ GetNodeType(nodes[1]) = NodeType512
  /\ GetNodeType(found.before) # NodeType512

\* ------------------------------------------------------------ bitfield256
\* The indices whose bit is set.
SetIndices(p) == {index \in 0..255 : bitfieldGet(p, index)}

\* C34: totalBitCount() is the number of indices whose bit is set, for every
\* content from no bit to all 256 bits; setting a bit that is set does not
\* change it.
C34_TotalBitCountCountsSetBits ==
  /\ totalBitCount(nodes[1]) = Cardinality(SetIndices(nodes[1]))
  /\ (found.set /\ found.op = "set" /\ bitfieldGet(found.before, found.index))
       => totalBitCount(nodes[1]) = totalBitCount(found.before)

\* ------------------------------------------------------- PresenceBitmap
\* The name of the last call on byte c, "none" when there was none.
LastCallOn(c) ==
  IF found.set /\ c \in PresenceBytes THEN found.last[c] ELSE "none"

\* C35: Get(b) is true exactly when the last call on b was Set, for every
\* byte, and a call on b leaves Get(c) as it was for every other byte c.
C35_BitsAreIndependent ==
  /\ \A c \in 0..255 : BitmapGet(nodes[1], c) <=> LastCallOn(c) = "Set"
  /\ found.set =>
       \A c \in 0..255 \ {found.b} :
          BitmapGet(nodes[1], c) <=> BitmapGet(found.before, c)

\* On each of the three word boundaries the last call on the lower byte
\* was Clear and the last call on the upper byte was Set: the lower bits
\* are clear and the upper bits are set.
C35_Witness ==
  /\ found.set
  /\ found.op = "Clear"
  /\ \A c \in {63, 127, 191} : LastCallOn(c) = "Clear" /\ ~BitmapGet(nodes[1], c)
  /\ \A c \in {64, 128, 192} : LastCallOn(c) = "Set" /\ BitmapGet(nodes[1], c)

\* ------------------------------------------------------- grow and shrink
\* The node n after one of its children was removed.
WithOneLess(n) == [n EXCEPT !.numChildren = @ - 1]

\* C36: a node never holds more children than its variant allows; a node
\* that has just grown is not eligible to shrink after one child removal;
\* a node that has just shrunk has capacity for one more child.
C36_GrowAndShrinkDoNotOscillate ==
  /\ nodes[1].numChildren <= GetMaxChildren(nodes[1]).max
  /\ found.set =>
       /\ found.op = "grow" => ~shouldShrink(WithOneLess(nodes[1]))
       /\ found.op = "shrink" => hasCapacity(nodes[1])

\* A Node512 has just been made by shrink() of a Node1024 at its threshold of
\* 45 children.
C36_Witness ==
  /\ found.set
  /\ found.op = "shrink"
  /\ GetNodeType(nodes[1]) = NodeType512
  /\ nodes[1].numChildren = maxChildrenNode512 - 5

\* ------------------------------------------------------- one entry per key
\* No two entries of m.data have equal keys.
KeysAreUnique ==
  \A i, j \in 1..Len(data) : data[i].key.bytes = data[j].key.bytes => i = j

\* A RemoveKey call is between its two writes: the last entry is copied over
\* the removed one and the slice is not truncated yet.
RemoveKeyBetweenWrites == \E t \in Threads : thr[t].pc = "trunc"

\* C37 as stated: in every reachable state of the multi-map, under any
\* interleaving of the calls, no two entries of m.data have equal keys.
C37_NoTwoEntriesWithEqualKeys == KeysAreUnique

\* C37: in every reachable state of the multi-map, under any interleaving of
\* the calls, no two entries of m.data have equal keys, unless a RemoveKey
\* call that holds the write lock is between its two writes; in particular
\* the keys are unique whenever the write lock is free or a goroutine is
\* inside a read-only critical section.
C37_NoTwoEntriesOutsideRemoveKey ==
  /\ ~RemoveKeyBetweenWrites => KeysAreUnique
  /\ (~mu.writer \/ \E t \in Threads : InReaderCS(t)) => ~RemoveKeyBetweenWrites

\* A RemoveKey call has removed the first of two entries and is about to
\* unlock: the entry left is the one that was the last.
C37_Witness ==
  \E t \in Threads :
     /\ thr[t].op = "RemoveKey"
     /\ thr[t].pc = "unlock"
     /\ thr[t].i = 1
     /\ Len(committed) = 2
     /\ Len(data) = 1
     /\ data[1].key.bytes = committed[2].key.bytes

\* ------------------------------------------------------- calls that return
\* m.mu is held for writing exactly while a goroutine is inside a mutator
\* between its Lock and its Unlock, and the number of read locks held is the
\* number of goroutines inside a read-only method between RLock and RUnlock.
LockHeldByCallsInProgress ==
  /\ mu.writer = (\E t \in Threads : InWriterCS(t))
  /\ mu.readers = Cardinality({t \in Threads : InReaderCS(t)})

\* C38: every call holds m.mu exactly from its Lock or RLock to its return,
\* so that the lock is free when no call is in progress; no state is a
\* deadlock; and with a fair scheduler and a fair lock every call that was
\* made returns.
C38_EveryCallReturnsWithTheLockFree ==
  /\ [](LockHeldByCallsInProgress /\ ~panicked)
  /\ [](ENABLED NextFair)
  /\ \A t \in Threads : (thr[t].pc # "idle") ~> (thr[t].pc = "idle")

\* A goroutine waits for the write lock while the other one is between the
\* RLock and the RUnlock of ContainsKey and has found the key.
C38_Witness ==
  \E t, u \in Threads :
     /\ thr[t].pc = "lock"
     /\ thr[t].op \in Mutators
     /\ thr[u].op = "ContainsKey"
     /\ thr[u].pc = "unlock"
     /\ thr[u].res = [kind |-> "bool", b |-> TRUE]

\* --------------------------------------------------------- node variants
\* The sorted key bytes of a Node512 or Node1024 are the bytes of its
\* mapping from bytes to non-nil children: every one of them has its child.
KeyBytesHaveChildren(n) ==
  n.kind \in SortedKinds => \A i \in 1..n.numChildren : n.child[i] # 0

\* C39: for the same inline prefix, value set and mapping from bytes to
\* non-nil children, with the sorted key bytes of a Node512 or Node1024
\* being the bytes of that mapping, getChild returns the same result for
\* every search key whether the node is a Node64, Node128, Node256, Node512,
\* Node1024 or FullNode, and whatever the order of the entries of the
\* unsorted structs.
C39_LookupIsTheSameInEveryVariant ==
  (found.set /\ KeyBytesHaveChildren(nodes[1])) =>
     \A kind \in InteriorKinds, sk \in SearchKeys :
        found.as[kind][sk] = found.node[sk]

\* The root is a Node64 whose entries are in descending order of their key
\* bytes, and the lookups found both of its children.
C39_Witness ==
  /\ found.set
  /\ GetNodeType(nodes[1]) = NodeType64
  /\ nodes[1].numChildren = 2
  /\ nodes[1].firstKeyByte[1] > nodes[1].firstKeyByte[2]
  /\ \A c \in {2, 3} : \E sk \in SearchKeys : found.node[sk] = Returned(c)

\* ------------------------------------------------------ early node family
\* C40: for a nodeLeaf, node5, node51 and node256 in every state,
\* hasCapacityForChild() is true exactly when currentChildCount() is less
\* than maxChildCount(), and currentChildCount() is at most maxChildCount().
C40_CapacityIffCountBelowMax ==
  (found.count >= 0 /\ found.max >= 0 /\ found.capacity >= 0) =>
     /\ (found.capacity = 1) <=> (found.count < found.max)
     /\ found.count <= found.max

====
